---- MODULE Spec2Model ----
(***************************************************************************)
(* State-machine model of the trading core: SimplePortfolio, OrderManager, *)
(* PerformanceTracker, TradingEngine and OrderBook.                        *)
(*                                                                         *)
(* Order objects are identified by their Python identity (id(order));     *)
(* the model uses the index of the object in `orders`.  Prices are        *)
(* integers; averaged prices are exact fractions [n, d].  Time is counted *)
(* in whole minutes.                                                      *)
(***************************************************************************)
EXTENDS Integers, Sequences, FiniteSets, TLC

\* ------------------------------------------------------------------ bounds
MaxEvents == 3         \* callbacks the gateway makes (ticks and order updates)
MaxTime == 1           \* minutes the wall clock may advance

Symbols == {"AAPL"}
Prices == {2}
Quantities == {-2, 3}
OrderIds == 1..MaxEvents
MaxBookOrders == 3     \* orders one OrderBook admits (add_order and modify_order)
MaxBookTime == 1       \* ticks of the clock the OrderBook reads
BookSymbol == "AAPL"
BookPrices == {1, 2}
BookQuantities == {-1, 1}
BookIds == 0..MaxBookOrders
MaxBidOrders == 4      \* orders the bid side admits when only bids are placed
BidIds == 0..MaxBidOrders

MaxPortfolioCalls == 4 \* add_to_holding and apply_order calls on one portfolio
PortfolioQuantities == {-2, -1, 1, 3}
PortfolioPrices == {1, 3}
MaxTrackerCalls == 4   \* calls on one PerformanceTracker
TrackerQuantities == {-3, -1, 1, 3}
TrackerPrices == {1, 3}
TrackerCapitals == {0, 6}
TrackerValues == {2, 3, 9}
MaxRateEvents == 3     \* ticks while the rate limit is watched
MaxRateTime == 2       \* minutes on the clock meanwhile
RateQuantities == {1, 3}
MaxFillEvents == 5     \* the tick and the updates of the order whose fills are watched
MaxFillTicks == 1
MaxMirrorEvents == 3   \* ticks and order updates of the run that closes positions
MirrorSymbols == {"AAPL", "MSFT"}
MirrorQuantities == {-1, 1, 2}
FillQuantities == {1, 3}
MaxTickEvents == 3     \* ticks of the stream with timestamps
TickTimestamps == {0, 1, 59, 60, 61}
MaxSubmissions == 2    \* orders handed to one MatchingEngine
MaxSubscribers == 2    \* callbacks subscribed to one MatchingEngine
MEQuantities == {-4, 2, 9}
RatePairs == {<<0, 0>>, <<5, 10>>}   \* (cancel_rate, partial_fill_rate), in hundredths
Draws == {0, 5, 14, 15}              \* random.random(), in hundredths
CallerIds == {"custom_id_123", "order_2_X"}
MaxGatewayCalls == 5   \* connect, disconnect and submit_order calls on one gateway
GatewayQuantities == {-4, 9}
GatewayIds == {"custom_id_123"}
GatewayDraws == {0, 5}
MaxRows == 3           \* rows of the CSV file run() streams
MaxBusRows == 2        \* rows run() publishes while deliveries are watched
MaxPolls == 2          \* rounds of LiveGateway.run's polling loop
NumSymbols == 2        \* symbols a LiveGateway polls in each round
GatewayKinds == {"simulation", "live"}

\* ------------------------------------------------------- configuration
initial_cash == 6
max_orders_per_minute == 2
max_order_value == 6
max_position_size == 12
OneMinute == 1

\* ------------------------------------------------------------- helpers
Abs(x) == IF x < 0 THEN -x ELSE x

Sign(x) == IF x > 0 THEN 1 ELSE -1

MaxQty == CHOOSE m \in {Abs(q) : q \in Quantities} : \A q \in Quantities : Abs(q) <= m

RECURSIVE Gcd(_, _)
Gcd(a, b) == IF b = 0 THEN a ELSE Gcd(b, a % b)

\* exact fraction n/d with d > 0, in lowest terms
Frac(n, d) ==
    LET g == Gcd(Abs(n), Abs(d))
        s == IF d < 0 THEN -1 ELSE 1
    IN  [n |-> (s * n) \div g, d |-> (s * d) \div g]

FracInt(i) == [n |-> i, d |-> 1]

\* dictionary helpers: a dict is a function whose domain is its key set
DictSet(dict, k, v) == [x \in (DOMAIN dict) \cup {k} |-> IF x = k THEN v ELSE dict[x]]

DictDel(dict, k) == [x \in (DOMAIN dict) \ {k} |-> dict[x]]

DictGet(dict, k, default) == IF k \in DOMAIN dict THEN dict[k] ELSE default

EmptyDict == [x \in {} |-> 0]

\* Python's floor division by a positive divisor
FloorDiv(a, b) == IF a >= 0 THEN a \div b ELSE -((-a + b - 1) \div b)

\* ------------------------------------------------------ models.Order
OrderStatus == {"PENDING", "ACTIVE", "PARTIALLY_FILLED", "FILLED", "CANCELED", "FAILED"}

Order(symbol, quantity, price, status, filled_quantity) ==
    [symbol |-> symbol, quantity |-> quantity, price |-> price,
     status |-> status, filled_quantity |-> filled_quantity]

remaining_quantity(order) == Abs(order.quantity) - order.filled_quantity

\* --------------------------------------------------- SimplePortfolio
\* A portfolio value is [cash, holdings, exc]; exc names the exception the
\* call raised ("none" when it returned normally).
EmptyHolding == [quantity |-> 0, avg_price |-> FracInt(0)]

update_cash(pf, amount) ==
    LET c == pf.cash + amount
    IN  [pf EXCEPT !.cash = c,
                   !.exc = IF c < 0 THEN "ValueError" ELSE "none"]

\* add_to_holding that averages the price in on sells as well
add_to_holding_reprices(pf, symbol, quantity, price) ==
    LET holding == DictGet(pf.holdings, symbol, EmptyHolding)
        new_quantity == holding.quantity + quantity
        total_cost == Frac(holding.avg_price.n * holding.quantity
                             + price * quantity * holding.avg_price.d,
                           holding.avg_price.d)
    IN  IF new_quantity < 0
        THEN [pf EXCEPT !.exc = "OrderError"]
        ELSE IF new_quantity = 0
        THEN [pf EXCEPT !.holdings = DictDel(pf.holdings, symbol), !.exc = "none"]
        ELSE [pf EXCEPT !.holdings =
                 DictSet(pf.holdings, symbol,
                         [quantity |-> new_quantity,
                          avg_price |-> Frac(total_cost.n, total_cost.d * new_quantity)]),
                        !.exc = "none"]

add_to_holding(pf, symbol, quantity, price) ==
    LET h0 == IF symbol \in DOMAIN pf.holdings
              THEN pf.holdings
              ELSE DictSet(pf.holdings, symbol, EmptyHolding)
        holding == h0[symbol]
        new_quantity == holding.quantity + quantity
        total_cost == Frac(holding.avg_price.n * holding.quantity
                             + price * quantity * holding.avg_price.d,
                           holding.avg_price.d)
        new_avg == IF quantity > 0
                   THEN Frac(total_cost.n, total_cost.d * new_quantity)
                   ELSE holding.avg_price
    IN  IF new_quantity < 0
        THEN [pf EXCEPT !.holdings = h0, !.exc = "OrderError"]
        ELSE IF new_quantity = 0
        THEN [pf EXCEPT !.holdings = DictDel(h0, symbol), !.exc = "none"]
        ELSE [pf EXCEPT !.holdings =
                 DictSet(h0, symbol, [quantity |-> new_quantity, avg_price |-> new_avg]),
                        !.exc = "none"]

apply_order(pf, order) ==
    IF order.status # "FILLED"
    THEN [pf EXCEPT !.exc = "OrderError"]
    ELSE LET total_cost == order.price * order.quantity
             p1 == update_cash(pf, -total_cost)
         IN  IF p1.exc # "none" THEN p1
             ELSE add_to_holding(p1, order.symbol, order.quantity, order.price)

get_holding(holdings, symbol) == DictGet(holdings, symbol, EmptyHolding)

\* can_execute_order that looks at the cash for sells as well
can_execute_order_cash_only(pf_cash, pf_holdings, order) ==
    pf_cash >= order.price * order.quantity

can_execute_order(pf_cash, pf_holdings, order) ==
    LET total_cost == order.price * order.quantity
    IN  IF order.quantity > 0
        THEN pf_cash >= total_cost
        ELSE get_holding(pf_holdings, order.symbol).quantity >= Abs(order.quantity)

\* ------------------------------------------------------ OrderManager
\* The engine-side state threaded through the handlers is one record w:
\*   cash, holdings                     SimplePortfolio
\*   orders                             the Order objects
\*   ts, pv, ao                         _order_timestamps, _position_values, _active_orders
\*   trades, positions, closed_pnls     PerformanceTracker
\*   now                                datetime.now()
\*   exc                                exception propagating out of the call
\*   apply, applied, delta              what the handler did (for the history variables)

\* deque(maxlen=max_orders_per_minute).append
DequeAppend(dq, x) ==
    IF max_orders_per_minute = 0 THEN dq
    ELSE IF Len(dq) >= max_orders_per_minute THEN Append(Tail(dq), x)
    ELSE Append(dq, x)

RECURSIVE PruneOld(_, _)
PruneOld(dq, cutoff) ==
    IF Len(dq) > 0 /\ Head(dq) < cutoff THEN PruneOld(Tail(dq), cutoff) ELSE dq

\* _check_rate_limit: returns [ok, ts] (the pruned deque is kept)
check_rate_limit(ts, now_) ==
    LET cutoff == now_ - OneMinute
        pruned == PruneOld(ts, cutoff)
    IN  [ok |-> Len(pruned) < max_orders_per_minute, ts |-> pruned]

check_position_limit(pv, order) ==
    LET current_position == DictGet(pv, order.symbol, 0)
        order_value == order.quantity * order.price
        new_position == Abs(current_position + order_value)
    IN  new_position <= max_position_size

\* validate_order: returns the tuple <<is_valid, reason>> and the pruned deque
validate_order(w, order) ==
    IF ~can_execute_order(w.cash, w.holdings, order)
    THEN [result |-> <<FALSE, IF order.quantity > 0 THEN "Insufficient cash"
                                                   ELSE "Insufficient holdings">>,
          ts |-> w.ts]
    ELSE LET rl == check_rate_limit(w.ts, w.now)
         IN  IF ~rl.ok
             THEN [result |-> <<FALSE, "Rate limit exceeded">>, ts |-> rl.ts]
             ELSE IF max_order_value # 0
                      /\ Abs(order.quantity * order.price) > max_order_value
             THEN [result |-> <<FALSE, "Order value exceeds limit">>, ts |-> rl.ts]
             ELSE IF max_position_size # 0 /\ ~check_position_limit(w.pv, order)
             THEN [result |-> <<FALSE, "Position limit exceeded">>, ts |-> rl.ts]
             ELSE [result |-> <<TRUE, "Valid">>, ts |-> rl.ts]

record_order(w, o) ==
    LET order == w.orders[o]
        order_value == order.quantity * order.price
    IN  [w EXCEPT !.ts = DequeAppend(w.ts, w.now),
                  !.ao = DictSet(w.ao, o, order.filled_quantity),
                  !.pv = IF order.status \in {"ACTIVE", "PENDING"}
                         THEN DictSet(w.pv, order.symbol,
                                      DictGet(w.pv, order.symbol, 0) + order_value)
                         ELSE w.pv]

remove_order_keeps(w, o) == w

remove_order(w, o) == [w EXCEPT !.ao = DictDel(w.ao, o)]

new_fill_qty_cumulative(filled_quantity, previous_filled) == filled_quantity

\* new_fill_qty = filled_quantity - previous_filled
new_fill_qty_of(filled_quantity, previous_filled) == filled_quantity - previous_filled

\* update_order_fill: returns [w, new_fill_qty, remaining_qty]
update_order_fill(w, o, filled_quantity) ==
    LET previous_filled == DictGet(w.ao, o, 0)
        order1 == [w.orders[o] EXCEPT !.filled_quantity = filled_quantity]
        new_fill_qty == new_fill_qty_of(filled_quantity, previous_filled)
        remaining_qty == remaining_quantity(order1)
        w1 == IF remaining_qty = 0
              THEN [w EXCEPT !.orders[o] = [order1 EXCEPT !.status = "FILLED"],
                             !.ao = DictDel(w.ao, o)]
              ELSE IF filled_quantity > previous_filled
              THEN [w EXCEPT !.orders[o] = [order1 EXCEPT !.status = "PARTIALLY_FILLED"],
                             !.ao = DictSet(w.ao, o, filled_quantity)]
              ELSE [w EXCEPT !.orders[o] = order1,
                             !.ao = IF o \in DOMAIN w.ao
                                    THEN DictSet(w.ao, o, filled_quantity)
                                    ELSE w.ao]
    IN  [w |-> [w1 EXCEPT !.delta = new_fill_qty],
         new_fill_qty |-> new_fill_qty,
         remaining_qty |-> remaining_qty]

\* ------------------------------------------------ PerformanceTracker
update_position(w, trade) ==
    LET symbol == trade.symbol
    IN  IF symbol \notin DOMAIN w.positions
        THEN IF trade.quantity # 0
             THEN [w EXCEPT !.positions = DictSet(w.positions, symbol,
                        [quantity |-> trade.quantity,
                         avg_entry_price |-> FracInt(trade.price),
                         current_price |-> trade.price])]
             ELSE w
        ELSE LET pos == w.positions[symbol]
                 old_quantity == pos.quantity
                 new_quantity == old_quantity + trade.quantity
                 a == pos.avg_entry_price
                 pnl == IF old_quantity > 0
                        THEN Frac((trade.price * a.d - a.n) * Abs(old_quantity), a.d)
                        ELSE Frac((a.n - trade.price * a.d) * Abs(old_quantity), a.d)
                 adding == (old_quantity > 0 /\ trade.quantity > 0)
                           \/ (old_quantity < 0 /\ trade.quantity < 0)
                 new_avg == IF adding
                            THEN Frac(a.n * Abs(old_quantity)
                                        + trade.price * Abs(trade.quantity) * a.d,
                                      a.d * Abs(new_quantity))
                            ELSE a
             IN  IF new_quantity = 0
                 THEN [w EXCEPT !.closed_pnls = Append(w.closed_pnls, pnl),
                                !.positions = DictDel(w.positions, symbol)]
                 ELSE [w EXCEPT !.positions = DictSet(w.positions, symbol,
                          [quantity |-> new_quantity,
                           avg_entry_price |-> new_avg,
                           current_price |-> trade.price])]

\* record_trade that appends the trade and leaves the positions alone
record_trade_only(w, order, timestamp) ==
    [w EXCEPT !.trades = Append(w.trades,
                  [timestamp |-> timestamp, symbol |-> order.symbol,
                   quantity |-> order.quantity, price |-> order.price,
                   side |-> IF order.quantity > 0 THEN "buy" ELSE "sell"])]

record_trade(w, order, timestamp) ==
    LET trade == [timestamp |-> timestamp, symbol |-> order.symbol,
                  quantity |-> order.quantity, price |-> order.price,
                  side |-> IF order.quantity > 0 THEN "buy" ELSE "sell"]
    IN  update_position([w EXCEPT !.trades = Append(w.trades, trade)], trade)

update_market_price(w, symbol, price) ==
    [w EXCEPT !.current_prices = DictSet(w.current_prices, symbol, price),
              !.positions = IF symbol \in DOMAIN w.positions
                            THEN [w.positions EXCEPT ![symbol].current_price = price]
                            ELSE w.positions]

FracAdd(a, b) == Frac(a.n * b.d + b.n * a.d, a.d * b.d)

RECURSIVE SumHoldings(_, _, _)
SumHoldings(holdings, current_prices, syms) ==
    IF syms = {} THEN FracInt(0)
    ELSE LET s == CHOOSE x \in syms : TRUE
             h == holdings[s]
             mark == IF s \in DOMAIN current_prices
                     THEN FracInt(current_prices[s]) ELSE h.avg_price
         IN  FracAdd(Frac(h.quantity * mark.n, mark.d),
                     SumHoldings(holdings, current_prices, syms \ {s}))

get_holdings_value(holdings, current_prices) ==
    SumHoldings(holdings, current_prices, DOMAIN holdings)

get_portfolio_value(w, current_prices) ==
    FracAdd(FracInt(w.cash), get_holdings_value(w.holdings, current_prices))

record_portfolio_value(w, timestamp) ==
    LET w1 == [w EXCEPT !.positions =
                  [s \in DOMAIN w.positions |->
                     IF s \in DOMAIN w.current_prices
                     THEN [w.positions[s] EXCEPT !.current_price = w.current_prices[s]]
                     ELSE w.positions[s]]]
        portfolio_value == get_portfolio_value(w1, w1.current_prices)
    IN  [w1 EXCEPT !.equity_curve = Append(w1.equity_curve, <<timestamp, portfolio_value>>),
                   !.current_capital = portfolio_value]

FracSub(a, b) == Frac(a.n * b.d - b.n * a.d, a.d * b.d)

FracLess(a, b) == a.n * b.d < b.n * a.d

\* drawdown / peak * 100 (peak > 0)
FracPct(drawdown, peak) == Frac(drawdown.n * peak.d * 100, drawdown.d * peak.n)

\* the loop of _calculate_drawdown from sample i on, acc = (peak, max_drawdown,
\* max_drawdown_pct)
RECURSIVE DrawdownLoop(_, _, _)
DrawdownLoop(curve, i, acc) ==
    IF i > Len(curve) THEN acc
    ELSE LET value == curve[i][2]
             peak == IF FracLess(acc.peak, value) THEN value ELSE acc.peak
             drawdown == FracSub(peak, value)
             drawdown_pct == IF peak.n > 0 THEN FracPct(drawdown, peak) ELSE FracInt(0)
         IN  DrawdownLoop(curve, i + 1,
                 IF FracLess(acc.max_drawdown, drawdown)
                 THEN [peak |-> peak, max_drawdown |-> drawdown,
                       max_drawdown_pct |-> drawdown_pct]
                 ELSE [acc EXCEPT !.peak = peak])

\* the peak starts at the capital the tracker was constructed with
_calculate_drawdown(capital, curve) ==
    IF curve = <<>> THEN <<FracInt(0), FracInt(0)>>
    ELSE LET r == DrawdownLoop(curve, 1, [peak |-> FracInt(capital),
                                         max_drawdown |-> FracInt(0),
                                         max_drawdown_pct |-> FracInt(0)])
         IN  <<r.max_drawdown, r.max_drawdown_pct>>

\* ------------------------------------------------------ TradingEngine
\* _apply_fill that records the trade before the portfolio has taken the fill
_apply_fill_records_first(w, o, fill_quantity) ==
    LET order == w.orders[o]
        fill_sign == IF order.quantity > 0 THEN 1 ELSE -1
        fill_order == Order(order.symbol, fill_sign * fill_quantity, order.price,
                            "FILLED", fill_quantity)
        r == apply_order(record_trade(w, fill_order, w.now), fill_order)
    IN  IF r.exc = "none"
        THEN [r EXCEPT !.apply = "ok", !.applied = @ + fill_order.quantity]
        ELSE IF r.exc = "ValueError"
        THEN [r EXCEPT !.exc = "none", !.apply = "ValueError"]
        ELSE [r EXCEPT !.apply = r.exc]

\* _apply_fill: the ValueError of update_cash is caught and logged; any other
\* exception (OrderError of add_to_holding) leaves the method.
_apply_fill(w, o, fill_quantity) ==
    LET order == w.orders[o]
        fill_sign == IF order.quantity > 0 THEN 1 ELSE -1
        fill_order == Order(order.symbol, fill_sign * fill_quantity, order.price,
                            "FILLED", fill_quantity)
        r == apply_order(w, fill_order)
    IN  IF r.exc = "none"
        THEN [record_trade(r, fill_order, w.now)
                 EXCEPT !.apply = "ok", !.applied = @ + fill_order.quantity]
        ELSE IF r.exc = "ValueError"
        THEN [r EXCEPT !.exc = "none", !.apply = "ValueError"]
        ELSE [r EXCEPT !.apply = r.exc]

\* the CANCELED branch of _on_order_update
on_canceled_fills_rest(w, o) ==
    remove_order(_apply_fill(w, o, remaining_quantity(w.orders[o])), o)

on_canceled(w, o) == remove_order(record_order(w, o), o)

\* _on_order_update(order); the gateway has set status and filled_quantity
_on_order_update(w, o) ==
    LET st == w.orders[o].status
        fq == w.orders[o].filled_quantity
    IN  CASE st = "ACTIVE" ->
               LET w1 == record_order(w, o)
               IN  IF fq > 0
                   THEN LET u == update_order_fill(w1, o, fq)
                        IN  IF u.new_fill_qty > 0
                            THEN LET w2 == _apply_fill(u.w, o, u.new_fill_qty)
                                 IN  IF w2.exc # "none" THEN w2
                                     ELSE IF u.remaining_qty > 0 THEN w2
                                     ELSE remove_order(w2, o)
                            ELSE u.w
                   ELSE w1
          [] st = "PARTIALLY_FILLED" ->
               LET u == update_order_fill(w, o, fq)
               IN  IF u.new_fill_qty > 0
                   THEN _apply_fill(u.w, o, u.new_fill_qty)
                   ELSE u.w
          [] st = "FILLED" ->
               LET u == update_order_fill(w, o, fq)
                   w2 == IF u.new_fill_qty > 0
                         THEN _apply_fill(u.w, o, u.new_fill_qty)
                         ELSE u.w
               IN  IF w2.exc # "none" THEN w2
                   ELSE remove_order(record_order(w2, o), o)
          [] st = "FAILED" -> remove_order(record_order(w, o), o)
          [] st = "CANCELED" -> on_canceled(w, o)
          [] OTHER -> w

\* `if self.order_manager.validate_order(order):` tests the returned tuple
\* (is_valid, reason) itself; a non-empty tuple is true.
Truthy(tuple) == Len(tuple) # 0

\* Gateway.submit_order as the gateways of the repository implement it:
\*   "ack"   LiveGateway, order accepted: ACTIVE, filled_quantity 0
\*   "fail"  LiveGateway, submission raised: FAILED
\*   "fill"  SimulationGateway without matching engine: FILLED in full
SubmitOutcomes == {"ack", "fail", "fill"}

\* and with a matching engine, whose draw may also give
\*   "partial"  PARTIALLY_FILLED, filled_quantity = quantity // 3
\*   "cancel"   CANCELED, filled_quantity 0
MatchingOutcomes == {"fill", "partial", "cancel"}

SubmitStatus(outcome) ==
    CASE outcome = "ack" -> "ACTIVE"
      [] outcome = "fail" -> "FAILED"
      [] outcome = "partial" -> "PARTIALLY_FILLED"
      [] outcome = "cancel" -> "CANCELED"
      [] OTHER -> "FILLED"

SubmitFilled(order, outcome) ==
    CASE outcome = "ack" -> 0
      [] outcome = "fail" -> order.filled_quantity
      [] outcome = "partial" -> FloorDiv(order.quantity, 3)
      [] outcome = "cancel" -> 0
      [] OTHER -> Abs(order.quantity)

\* _publish_order_update after the gateway has written status and
\* filled_quantity into the order object
publish_order_update(w, o, status, filled_quantity) ==
    _on_order_update([w EXCEPT !.orders[o].status = status,
                               !.orders[o].filled_quantity = filled_quantity], o)

submit_order(w, o, outcome) ==
    publish_order_update(w, o, SubmitStatus(outcome), SubmitFilled(w.orders[o], outcome))

\* _on_market_data(tick) with the strategy returning the signal
\* (tick.symbol, quantity, tick.price, BUY/SELL), or nothing when quantity = 0.
\* Returns [w, submitted, valid].
_on_market_data(w, timestamp, symbol, price, quantity, o, outcome) ==
    LET w1 == record_portfolio_value(update_market_price(w, symbol, price), timestamp)
    IN  IF quantity = 0
        THEN [w |-> w1, submitted |-> FALSE, valid |-> FALSE]
        ELSE LET order == Order(symbol, quantity, price, "PENDING", 0)
                 w2 == [w1 EXCEPT !.orders = DictSet(w1.orders, o, order)]
                 v == validate_order(w2, order)
                 w3 == [w2 EXCEPT !.ts = v.ts]
             IN  IF Truthy(v.result)
                 THEN [w |-> submit_order(w3, o, outcome), submitted |-> TRUE,
                       valid |-> v.result[1]]
                 ELSE [w |-> w3, submitted |-> FALSE, valid |-> v.result[1]]

\* ---------------------------------------------------------- OrderBook
\* Optional[...] results
None == <<>>

Some(x) == <<x>>

BookOrder(priority_price, timestamp, order, order_id) ==
    [priority_price |-> priority_price, timestamp |-> timestamp,
     order |-> order, order_id |-> order_id]

\* dataclass(order=True): compares (priority_price, timestamp) only
BookOrderLt(a, b) ==
    \/ a.priority_price < b.priority_price
    \/ (a.priority_price = b.priority_price /\ a.timestamp < b.timestamp)

\* a Python list, positions from 0
At(heap, pos) == heap[pos + 1]

Put(heap, pos, x) == [heap EXCEPT ![pos + 1] = x]

RECURSIVE siftdown_loop(_, _, _, _)
siftdown_loop(heap, startpos, pos, newitem) ==
    IF pos > startpos /\ BookOrderLt(newitem, At(heap, (pos - 1) \div 2))
    THEN siftdown_loop(Put(heap, pos, At(heap, (pos - 1) \div 2)),
                       startpos, (pos - 1) \div 2, newitem)
    ELSE Put(heap, pos, newitem)

_siftdown(heap, startpos, pos) == siftdown_loop(heap, startpos, pos, At(heap, pos))

RECURSIVE siftup_loop(_, _, _, _)
siftup_loop(heap, startpos, pos, newitem) ==
    LET endpos == Len(heap)
        childpos == 2 * pos + 1
        rightpos == childpos + 1
        c == IF rightpos < endpos /\ ~BookOrderLt(At(heap, childpos), At(heap, rightpos))
             THEN rightpos ELSE childpos
    IN  IF childpos < endpos
        THEN siftup_loop(Put(heap, pos, At(heap, c)), startpos, c, newitem)
        ELSE _siftdown(Put(heap, pos, newitem), startpos, pos)

_siftup(heap, pos) == siftup_loop(heap, pos, pos, At(heap, pos))

heappush(heap, item) == _siftdown(Append(heap, item), 0, Len(heap))

heappop(heap) ==
    LET lastelt == heap[Len(heap)]
        rest == SubSeq(heap, 1, Len(heap) - 1)
    IN  IF rest # <<>>
        THEN [heap |-> _siftup(Put(rest, 0, lastelt), 0), item |-> rest[1]]
        ELSE [heap |-> rest, item |-> lastelt]

clean_top_keeps(heap, cancelled_ids) == heap

RECURSIVE _clean_top(_, _)
_clean_top(heap, cancelled_ids) ==
    IF heap # <<>> /\ heap[1].order_id \in cancelled_ids
    THEN _clean_top(heappop(heap).heap, cancelled_ids)
    ELSE heap

\* order ids f"{symbol}_{total_orders}" are kept as the number total_orders
add_order(b, order, timestamp) ==
    LET order_id == b.total_orders
        book_order == IF order.quantity > 0
                      THEN BookOrder(-order.price, timestamp, order, order_id)
                      ELSE BookOrder(order.price, timestamp, order, order_id)
    IN  [b |-> [b EXCEPT !.total_orders = @ + 1,
                         !.bids = IF order.quantity > 0 THEN heappush(@, book_order) ELSE @,
                         !.asks = IF order.quantity > 0 THEN @ ELSE heappush(@, book_order),
                         !.orders = DictSet(@, order_id, book_order)],
         result |-> order_id]

cancel_order_unmarked(b, order_id) ==
    IF order_id \notin DOMAIN b.orders
    THEN [b |-> b, result |-> FALSE]
    ELSE [b |-> [b EXCEPT !.orders = DictDel(@, order_id)], result |-> TRUE]

cancel_order_forgets(b, order_id) ==
    [b |-> [b EXCEPT !.cancelled_ids = @ \cup {order_id},
                     !.orders = DictDel(@, order_id)],
     result |-> FALSE]

cancel_order(b, order_id) ==
    IF order_id \notin DOMAIN b.orders
    THEN [b |-> b, result |-> FALSE]
    ELSE [b |-> [b EXCEPT !.cancelled_ids = @ \cup {order_id},
                          !.orders = DictDel(@, order_id)],
          result |-> TRUE]

\* modify_order that rewrites the entry of order_id and leaves the id in force
modify_order_keeps_id(b, order_id, new_price, new_quantity, timestamp) ==
    IF order_id \notin DOMAIN b.orders
    THEN [b |-> b, result |-> FALSE]
    ELSE LET old_order == b.orders[order_id].order
             new_order == Order(old_order.symbol,
                                IF new_quantity # None THEN new_quantity[1]
                                                       ELSE old_order.quantity,
                                IF new_price # None THEN new_price[1]
                                                    ELSE old_order.price,
                                "PENDING", 0)
             b2 == add_order(b, new_order, timestamp).b
         IN  [b |-> [b2 EXCEPT !.orders = DictSet(@, order_id, b.orders[order_id])],
              result |-> TRUE]

modify_order(b, order_id, new_price, new_quantity, timestamp) ==
    IF order_id \notin DOMAIN b.orders
    THEN [b |-> b, result |-> FALSE]
    ELSE LET old_order == b.orders[order_id].order
             b1 == cancel_order(b, order_id).b
             new_order == Order(old_order.symbol,
                                IF new_quantity # None THEN new_quantity[1]
                                                       ELSE old_order.quantity,
                                IF new_price # None THEN new_price[1]
                                                    ELSE old_order.price,
                                "PENDING", 0)
         IN  [b |-> add_order(b1, new_order, timestamp).b, result |-> TRUE]

get_matchable_orders(b) ==
    LET bids_ == _clean_top(b.bids, b.cancelled_ids)
        asks_ == _clean_top(b.asks, b.cancelled_ids)
        b1 == [b EXCEPT !.bids = bids_, !.asks = asks_]
    IN  IF bids_ = <<>> \/ asks_ = <<>>
        THEN [b |-> b1, result |-> None]
        ELSE IF -bids_[1].priority_price >= asks_[1].priority_price
             THEN [b |-> b1, result |-> <<bids_[1].order_id, asks_[1].order_id>>]
             ELSE [b |-> b1, result |-> None]

remove_top_bid(b) ==
    LET bids_ == _clean_top(b.bids, b.cancelled_ids)
    IN  IF bids_ # <<>>
        THEN LET r == heappop(bids_)
             IN  [b |-> [b EXCEPT !.bids = r.heap,
                                  !.orders = DictDel(@, r.item.order_id)],
                  result |-> Some(r.item.order_id)]
        ELSE [b |-> [b EXCEPT !.bids = bids_], result |-> None]

remove_top_ask(b) ==
    LET asks_ == _clean_top(b.asks, b.cancelled_ids)
    IN  IF asks_ # <<>>
        THEN LET r == heappop(asks_)
             IN  [b |-> [b EXCEPT !.asks = r.heap,
                                  !.orders = DictDel(@, r.item.order_id)],
                  result |-> Some(r.item.order_id)]
        ELSE [b |-> [b EXCEPT !.asks = asks_], result |-> None]

get_best_bid(b) ==
    LET bids_ == _clean_top(b.bids, b.cancelled_ids)
    IN  [b |-> [b EXCEPT !.bids = bids_],
         result |-> IF bids_ # <<>> THEN Some(-bids_[1].priority_price) ELSE None]

get_best_ask(b) ==
    LET asks_ == _clean_top(b.asks, b.cancelled_ids)
    IN  [b |-> [b EXCEPT !.asks = asks_],
         result |-> IF asks_ # <<>> THEN Some(asks_[1].priority_price) ELSE None]

\* ------------------------------------------------------- MatchingEngine
\* the Order of the matching engine: the id field, and filled_quantity once set
MEOrder(symbol, quantity, price, status, id) ==
    [symbol |-> symbol, quantity |-> quantity, price |-> price, status |-> status,
     filled_quantity |-> None, id |-> id]

\* MatchingEngine.__init__
MatchingEngine(cancel_rate, partial_fill_rate) ==
    [orders |-> EmptyDict, cancel_rate |-> cancel_rate,
     partial_fill_rate |-> partial_fill_rate, callbacks |-> 0]

subscribe_order_updates(m) == [m EXCEPT !.callbacks = @ + 1]

create_unique_id(m) == "order_" \o ToString(Cardinality(DOMAIN m.orders) + 1) \o "_X"

ensure_order_id(m, order) ==
    IF order.id = None THEN [order EXCEPT !.id = Some(create_unique_id(m))] ELSE order

\* order.filled_quantity = order.quantity
filled_on_fill(order) == order.quantity

attempt_to_fill_order(m, order, random_value) ==
    LET filled ==
            IF m.cancel_rate > 0 /\ random_value < m.cancel_rate
            THEN [order EXCEPT !.status = "CANCELED", !.filled_quantity = Some(0)]
            ELSE IF /\ m.partial_fill_rate > 0
                    /\ random_value < m.partial_fill_rate + m.cancel_rate
                 THEN [order EXCEPT !.status = "PARTIALLY_FILLED",
                                    !.filled_quantity = Some(FloorDiv(order.quantity, 3))]
                 ELSE [order EXCEPT !.status = "FILLED",
                                    !.filled_quantity = Some(filled_on_fill(order))]
    IN  [m |-> [m EXCEPT !.orders = DictSet(@, filled.id[1], filled)],
         order |-> filled]

\* MatchingEngine._publish_order_update: what each subscribed callback receives
me_publish_order_update(m, order) == [s \in 1..m.callbacks |-> order]

\* process_order works on copy.copy(order); the caller's object is not touched
process_order(m, order, random_value) ==
    LET internal_order == ensure_order_id(m, order)
        r == attempt_to_fill_order(m, internal_order, random_value)
    IN  [m |-> r.m, result |-> r.order,
         delivered |-> me_publish_order_update(r.m, r.order)]

\* ---------------------------------------------------- SimulationGateway
\* SimulationGateway(csv_path, matching_engine=..., audit_log_path=...); the
\* matching engine, when given, gets _publish_order_update as a subscriber
SimulationGateway(has_matching_engine, has_audit_log) ==
    [_connected |-> FALSE, matching_engine |-> has_matching_engine,
     audit_log_path |-> has_audit_log, _audit_writer |-> has_audit_log,
     callbacks |-> 0, md_callbacks |-> 0]

connect(g) == [g EXCEPT !._connected = TRUE]

_close_audit_log(g) == [g EXCEPT !._audit_writer = FALSE]

disconnect(g) == [_close_audit_log(g) EXCEPT !._connected = FALSE]

\* Gateway._log_order_event: the rows of the audit file afterwards
_log_order_event(g, rows, event) ==
    IF ~g._audit_writer THEN rows ELSE Append(rows, event)

gateway_publish_order_update_first(g, order) == [c \in 1..(IF g.callbacks = 0 THEN 0 ELSE 1) |-> order]

\* Gateway._publish_order_update: what each subscribed callback receives
gateway_publish_order_update(g, order) == [c \in 1..g.callbacks |-> order]

\* the engine's deliveries reach the gateway's _publish_order_update one by one
RECURSIVE forward_deliveries(_, _)
forward_deliveries(g, delivered) ==
    IF delivered = <<>> THEN <<>>
    ELSE gateway_publish_order_update(g, Head(delivered))
             \o forward_deliveries(g, Tail(delivered))

sim_submit_order_unguarded(g, m, rows, order, random_value) ==
    LET rows1 == _log_order_event(g, rows, "SENT")
        r == process_order(m, order, random_value)
    IN  [m |-> r.m, rows |-> rows1, order |-> order, exc |-> "none",
         outcome |-> Some(r.result),
         published |-> forward_deliveries(g, r.delivered)]

\* SimulationGateway.submit_order(order): the engine, the audit rows and the
\* caller's order object afterwards, the exception raised, the order as the
\* venue left it, the updates published
sim_submit_order(g, m, rows, order, random_value) ==
    IF ~g._connected
    THEN [m |-> m, rows |-> rows, order |-> order, exc |-> "RuntimeError",
          outcome |-> None, published |-> <<>>]
    ELSE LET rows1 == _log_order_event(g, rows, "SENT")
         IN  IF g.matching_engine
             THEN LET r == process_order(m, order, random_value)
                  IN  [m |-> r.m, rows |-> rows1, order |-> order, exc |-> "none",
                       outcome |-> Some(r.result),
                       published |-> forward_deliveries(g, r.delivered)]
             ELSE LET filled == [order EXCEPT
                                    !.filled_quantity = Some(Abs(order.quantity)),
                                    !.status = "FILLED"]
                  IN  [m |-> m, rows |-> _log_order_event(g, rows1, "FILLED"),
                       order |-> filled, exc |-> "none", outcome |-> Some(filled),
                       published |-> gateway_publish_order_update(g, filled)]

\* -------------------------------------------------------------- state
VARIABLES
    cash, holdings,                                   \* SimplePortfolio
    orders,                                           \* Order objects, by identity
    order_timestamps, position_values, active_orders, \* OrderManager
    trades, positions, closed_pnls,                   \* PerformanceTracker
    current_prices, equity_curve, current_capital,
    now,                                              \* datetime.now(), in minutes
    submitted,                                        \* orders Gateway.submit_order received
    hist,                                             \* per order: what happened to it so far
    last,                                             \* the callback that ran last
    nTicks, nUpdates,
    pf_last,                                          \* the portfolio call made last
    pf_buys,                                          \* per symbol: what was bought so far
    pt_last,                                          \* the tracker call made last
    initial_capital,                                  \* PerformanceTracker.initial_capital
    _bids, _asks, _orders, _cancelled_ids, total_orders, \* OrderBook
    book_now,                                         \* datetime.now() seen by the book
    admitted,                                         \* every order the book was given
    book_last,                                        \* the OrderBook call made last
    matching_engine,                                  \* a MatchingEngine object
    me_log,                                           \* what it was given, what it returned
    me_last,                                          \* its call made last
    gateway,                                          \* a SimulationGateway object
    audit_log,                                        \* the rows of its audit file
    gw_calls,                                         \* calls made on it so far
    gw_seen,                                          \* what has happened on it so far
    gw_last,                                          \* its call made last
    worker,                                           \* the thread running run()
    host,                                             \* the main thread
    stop_limit,                                       \* ticks allowed once a stop was asked
    bus                                               \* run() in one thread: what was delivered, in order

\* what is kept about calls made on the engine's parts directly
directVars == <<pf_last, pf_buys, pt_last, initial_capital>>

engineVars == <<cash, holdings, orders, order_timestamps, position_values,
                active_orders, trades, positions, closed_pnls, current_prices,
                equity_curve, current_capital, now, submitted, hist, last,
                nTicks, nUpdates, directVars>>

bookVars == <<_bids, _asks, _orders, _cancelled_ids, total_orders, book_now,
              admitted, book_last>>

meVars == <<matching_engine, me_log, me_last>>

gwVars == <<gateway, audit_log, gw_calls, gw_seen, gw_last>>

runVars == <<worker, host, stop_limit, bus>>

gatewayVars == <<meVars, gwVars, runVars>>

vars == <<engineVars, bookVars, runVars, gatewayVars>>

Terminal == {"FILLED", "CANCELED", "FAILED"}

World ==
    [cash |-> cash, holdings |-> holdings, orders |-> orders,
     ts |-> order_timestamps, pv |-> position_values, ao |-> active_orders,
     trades |-> trades, positions |-> positions, closed_pnls |-> closed_pnls,
     current_prices |-> current_prices, equity_curve |-> equity_curve,
     current_capital |-> current_capital, now |-> now,
     exc |-> "none", apply |-> "none", applied |-> 0, delta |-> 0]

Commit(w) ==
    /\ cash' = w.cash
    /\ holdings' = w.holdings
    /\ orders' = w.orders
    /\ order_timestamps' = w.ts
    /\ position_values' = w.pv
    /\ active_orders' = w.ao
    /\ trades' = w.trades
    /\ positions' = w.positions
    /\ closed_pnls' = w.closed_pnls
    /\ current_prices' = w.current_prices
    /\ equity_curve' = w.equity_curve
    /\ current_capital' = w.current_capital

NoHist == [valid |-> FALSE, lastStatus |-> "none", applied |-> 0,
           failed |-> FALSE, proto |-> TRUE, at |-> 0, reported |-> 0]

\* history of order o after the gateway delivered (status, filled) and the
\* engine's callback turned w0 into w
HistAfter(h, filledBefore, status, filled, w) ==
    [h EXCEPT !.lastStatus = status,
              !.applied = @ + w.applied,
              !.reported = IF filled > @ THEN filled ELSE @,
              !.failed = @ \/ w.apply \in {"ValueError", "OrderError"},
              !.proto = /\ @
                        /\ h.lastStatus \notin Terminal
                        /\ filled >= filledBefore
                        /\ (status = "ACTIVE" => filled = 0)]

Init ==
    /\ cash = initial_cash
    /\ holdings = EmptyDict
    /\ orders = EmptyDict
    /\ order_timestamps = <<>>
    /\ position_values = EmptyDict
    /\ active_orders = EmptyDict
    /\ trades = <<>>
    /\ positions = EmptyDict
    /\ closed_pnls = <<>>
    /\ current_prices = EmptyDict
    /\ equity_curve = <<>>
    /\ current_capital = FracInt(initial_cash)
    /\ now = 0
    /\ submitted = {}
    /\ hist = EmptyDict
    /\ last = [kind |-> "init", order |-> 0, status |-> "none", apply |-> "none",
               delta |-> 0, exc |-> "none"]
    /\ nTicks = 0
    /\ nUpdates = 0
    /\ pf_last = [op |-> "init", exc |-> "none", symbol |-> "", quantity |-> 0,
                  price |-> 0, calls |-> 0, result |-> None]
    /\ pf_buys = EmptyDict
    /\ pt_last = [op |-> "init", symbol |-> "", quantity |-> 0, price |-> 0,
                  opened |-> FALSE, result |-> None, calls |-> 0]
    /\ initial_capital = initial_cash
    /\ _bids = <<>>
    /\ _asks = <<>>
    /\ _orders = EmptyDict
    /\ _cancelled_ids = {}
    /\ total_orders = 0
    /\ book_now = 0
    /\ admitted = EmptyDict
    /\ book_last = [op |-> "init", ok |-> TRUE, val |-> None]
    /\ matching_engine = MatchingEngine(0, 0)
    /\ me_log = <<>>
    /\ me_last = [op |-> "init", order |-> None, random_value |-> 0,
                  result |-> None, delivered |-> <<>>]
    /\ gateway = SimulationGateway(FALSE, FALSE)
    /\ audit_log = <<>>
    /\ gw_calls = 0
    /\ gw_seen = {}
    /\ gw_last = [op |-> "init", exc |-> "none", order |-> None, after |-> None,
                  outcome |-> None, published |-> <<>>]
    /\ worker = [pc |-> "not_started", kind |-> "simulation", left |-> 0,
                 polls |-> 0, ticks |-> 0]
    /\ host = "main"
    /\ stop_limit = None
    /\ bus = [pc |-> "idle", rows |-> 0, log |-> <<>>]

\* Gateway publishes a tick; the engine's _on_market_data runs to completion
\* its tick carrying the given timestamp
OnMarketDataAt(cap, timestamp, symbol, price, quantity, outcome) ==
    /\ nTicks + nUpdates < cap
    /\ LET o == nTicks + 1
           r == _on_market_data(World, timestamp, symbol, price, quantity, o, outcome)
           st == SubmitStatus(outcome)
       IN  /\ Commit(r.w)
           /\ submitted' = IF r.submitted THEN submitted \cup {o} ELSE submitted
           /\ hist' = IF quantity = 0 THEN hist
                      ELSE IF r.submitted
                      THEN DictSet(hist, o,
                               HistAfter([NoHist EXCEPT !.valid = r.valid, !.at = now], 0, st,
                                         SubmitFilled(r.w.orders[o], outcome), r.w))
                      ELSE DictSet(hist, o, [NoHist EXCEPT !.valid = r.valid, !.at = now])
           /\ last' = [kind |-> "tick", order |-> IF quantity = 0 THEN 0 ELSE o,
                       status |-> IF r.submitted THEN st ELSE "none",
                       apply |-> r.w.apply, delta |-> r.w.delta, exc |-> r.w.exc]
    /\ nTicks' = nTicks + 1
    /\ UNCHANGED <<now, nUpdates, directVars, bookVars, gatewayVars>>

\* a stream in which every tick has a timestamp of its own
OnMarketDataWithin(cap, symbol, price, quantity, outcome) ==
    OnMarketDataAt(cap, nTicks + 1, symbol, price, quantity, outcome)

OnMarketData(symbol, price, quantity, outcome) ==
    OnMarketDataWithin(MaxEvents, symbol, price, quantity, outcome)

\* statuses and cumulative fills a gateway may report for an order later on
UpdateFills(order, status) ==
    CASE status = "ACTIVE" -> {0, 1}
      [] status = "PARTIALLY_FILLED" -> 1..(Abs(order.quantity) - 1)
      [] status = "FILLED" -> {Abs(order.quantity)}
      [] OTHER -> {order.filled_quantity}

\* Gateway publishes an update of a submitted order; _on_order_update runs
OrderUpdateWithin(cap, o, status, filled) ==
    /\ nTicks + nUpdates < cap
    /\ o \in submitted
    /\ filled \in UpdateFills(orders[o], status)
    /\ LET w == publish_order_update(World, o, status, filled)
       IN  /\ Commit(w)
           /\ hist' = [hist EXCEPT ![o] =
                          HistAfter(@, orders[o].filled_quantity, status, filled, w)]
           /\ last' = [kind |-> "update", order |-> o, status |-> status,
                       apply |-> w.apply, delta |-> w.delta, exc |-> w.exc]
    /\ nUpdates' = nUpdates + 1
    /\ UNCHANGED <<now, submitted, nTicks, directVars, bookVars, gatewayVars>>

OrderUpdate(o, status, filled) == OrderUpdateWithin(MaxEvents, o, status, filled)

\* a minute passes on the wall clock
ClockTickWithin(cap) ==
    /\ now < cap
    /\ now' = now + 1
    /\ UNCHANGED <<cash, holdings, orders, order_timestamps, position_values,
                   active_orders, trades, positions, closed_pnls, current_prices,
                   equity_curve, current_capital, submitted, hist, last,
                   nTicks, nUpdates, directVars, bookVars, gatewayVars>>

ClockTick == ClockTickWithin(MaxTime)

Next ==
    \/ \E symbol \in Symbols, price \in Prices, quantity \in Quantities \cup {0},
          outcome \in SubmitOutcomes :
          OnMarketData(symbol, price, quantity, outcome)
    \/ \E o \in OrderIds, status \in OrderStatus \ {"PENDING"}, filled \in 0..MaxQty :
          OrderUpdate(o, status, filled)
    \/ ClockTick

Spec == Init /\ [][Next]_vars

\* the engine on a SimulationGateway with a matching engine: buys of one
\* symbol at one price, over more minutes than one
RateTick(quantity, outcome) ==
    OnMarketDataWithin(MaxRateEvents, "AAPL", 2, quantity, outcome)

RateClockTick == ClockTickWithin(MaxRateTime)

NextRate ==
    \/ \E quantity \in RateQuantities, outcome \in MatchingOutcomes :
          RateTick(quantity, outcome)
    \/ RateClockTick

SpecRate == Init /\ [][NextRate]_vars

\* the engine with one order, a buy, and a longer run of updates for it
FillTick(quantity, outcome) ==
    /\ nTicks < MaxFillTicks
    /\ OnMarketDataWithin(MaxFillEvents, "AAPL", 2, quantity, outcome)

FillUpdate(o, status, filled) == OrderUpdateWithin(MaxFillEvents, o, status, filled)

NextFills ==
    \/ \E quantity \in FillQuantities, outcome \in SubmitOutcomes :
          FillTick(quantity, outcome)
    \/ \E o \in OrderIds, status \in OrderStatus \ {"PENDING"}, filled \in 0..MaxQty :
          FillUpdate(o, status, filled)

SpecFills == Init /\ [][NextFills]_vars

\* the engine with buys and sells of two symbols that open, reduce and close
\* positions
MirrorTick(symbol, quantity, outcome) ==
    OnMarketDataWithin(MaxMirrorEvents, symbol, 2, quantity, outcome)

MirrorUpdate(o, status, filled) ==
    OrderUpdateWithin(MaxMirrorEvents, o, status, filled)

NextMirror ==
    \/ \E symbol \in MirrorSymbols, quantity \in MirrorQuantities,
          outcome \in {"ack", "fill"} :
          MirrorTick(symbol, quantity, outcome)
    \/ \E o \in OrderIds, status \in {"PARTIALLY_FILLED", "FILLED"},
          filled \in 0..MaxQty :
          MirrorUpdate(o, status, filled)

SpecMirror == Init /\ [][NextMirror]_vars

\* the engine on a stream whose timestamps (in seconds) never decrease and
\* may repeat
TickAt(timestamp, symbol, price, quantity) ==
    /\ equity_curve # <<>> => equity_curve[Len(equity_curve)][1] <= timestamp
    /\ OnMarketDataAt(MaxTickEvents, timestamp, symbol, price, quantity, "fill")

NextTicks ==
    \E timestamp \in TickTimestamps, symbol \in Symbols, price \in Prices,
       quantity \in Quantities \cup {0} :
       TickAt(timestamp, symbol, price, quantity)

SpecTicks == Init /\ [][NextTicks]_vars

\* ------------------------------------------ SimplePortfolio, called directly
NoBuys == [cost |-> 0, quantity |-> 0, sold |-> FALSE]

\* what was bought of symbol after a call that turned the portfolio into pf
BuysAfter(pf, symbol, quantity, price) ==
    LET b == DictGet(pf_buys, symbol, NoBuys)
    IN  IF pf.exc # "none" THEN pf_buys
        ELSE IF quantity > 0
        THEN DictSet(pf_buys, symbol, [b EXCEPT !.cost = @ + price * quantity,
                                                !.quantity = @ + quantity])
        ELSE IF quantity < 0 THEN DictSet(pf_buys, symbol, [b EXCEPT !.sold = TRUE])
        ELSE pf_buys

PortfolioCall(op, pf, symbol, quantity, price) ==
    /\ pf_last.calls < MaxPortfolioCalls
    /\ Commit(pf)
    /\ pf_last' = [op |-> op, exc |-> pf.exc, symbol |-> symbol, quantity |-> quantity,
                   price |-> price, calls |-> pf_last.calls + 1, result |-> None]
    /\ pf_buys' = BuysAfter(pf, symbol, quantity, price)
    /\ UNCHANGED <<now, submitted, hist, last, nTicks, nUpdates, pt_last,
                   initial_capital, bookVars, gatewayVars>>

\* portfolio.add_to_holding(symbol, quantity, price)
AddToHolding(symbol, quantity, price) ==
    PortfolioCall("add_to_holding", add_to_holding(World, symbol, quantity, price),
                  symbol, quantity, price)

\* portfolio.apply_order(Order(symbol, quantity, price, status))
ApplyOrder(symbol, quantity, price, status) ==
    PortfolioCall("apply_order",
                  apply_order(World, Order(symbol, quantity, price, status, 0)),
                  symbol, quantity, price)

\* portfolio.can_execute_order(Order(symbol, quantity, price, PENDING))
CanExecuteOrder(symbol, quantity, price) ==
    /\ pf_last.calls < MaxPortfolioCalls
    /\ Commit(World)
    /\ pf_last' = [op |-> "can_execute_order", exc |-> "none", symbol |-> symbol,
                   quantity |-> quantity, price |-> price, calls |-> pf_last.calls + 1,
                   result |-> Some(can_execute_order(cash, holdings,
                                       Order(symbol, quantity, price, "PENDING", 0)))]
    /\ UNCHANGED <<now, submitted, hist, last, nTicks, nUpdates, pf_buys, pt_last,
                   initial_capital, bookVars, gatewayVars>>

NextPortfolio ==
    \/ \E symbol \in Symbols, quantity \in PortfolioQuantities, price \in PortfolioPrices :
          AddToHolding(symbol, quantity, price)
    \/ \E symbol \in Symbols, quantity \in PortfolioQuantities, price \in PortfolioPrices,
          status \in {"FILLED", "PENDING"} :
          ApplyOrder(symbol, quantity, price, status)
    \/ \E symbol \in Symbols, quantity \in PortfolioQuantities, price \in PortfolioPrices :
          CanExecuteOrder(symbol, quantity, price)

SpecPortfolio == Init /\ [][NextPortfolio]_vars

\* --------------------------------------- PerformanceTracker, called directly
TrackerCall(op, w, symbol, quantity, price, opened, result) ==
    /\ pt_last.calls < MaxTrackerCalls
    /\ Commit(w)
    /\ pt_last' = [op |-> op, symbol |-> symbol, quantity |-> quantity, price |-> price,
                   opened |-> opened, result |-> result, calls |-> pt_last.calls + 1]
    /\ UNCHANGED <<now, submitted, hist, last, nTicks, nUpdates, pf_last, pf_buys,
                   initial_capital, bookVars, gatewayVars>>

\* PerformanceTracker(capital), before any call is made on it
NewPerformanceTracker(capital) ==
    /\ pt_last.op = "init"
    /\ initial_capital' = capital
    /\ Commit([World EXCEPT !.current_capital = FracInt(capital)])
    /\ pt_last' = [pt_last EXCEPT !.op = "__init__"]
    /\ UNCHANGED <<now, submitted, hist, last, nTicks, nUpdates, pf_last, pf_buys,
                   bookVars, gatewayVars>>

\* tracker.record_portfolio_value(portfolio, timestamp), the portfolio holding
\* nothing but cash
RecordPortfolioValue(portfolio_cash) ==
    TrackerCall("record_portfolio_value",
                record_portfolio_value([World EXCEPT !.cash = portfolio_cash,
                                                     !.holdings = EmptyDict],
                                       pt_last.calls + 1),
                "", 0, 0, FALSE, None)

\* tracker._calculate_drawdown()
CalculateDrawdown ==
    /\ pt_last.op # "_calculate_drawdown"
    /\ TrackerCall("_calculate_drawdown", World, "", 0, 0, FALSE,
                   Some(_calculate_drawdown(initial_capital, equity_curve)))

\* tracker.record_trade(Order(symbol, quantity, price, FILLED), timestamp)
RecordTrade(symbol, quantity, price) ==
    TrackerCall("record_trade",
                record_trade(World, Order(symbol, quantity, price, "FILLED",
                                          Abs(quantity)), pt_last.calls + 1),
                symbol, quantity, price, symbol \notin DOMAIN positions, None)

NextTracker ==
    \/ \E symbol \in Symbols, quantity \in TrackerQuantities, price \in TrackerPrices :
          RecordTrade(symbol, quantity, price)
    \/ \E capital \in TrackerCapitals : NewPerformanceTracker(capital)
    \/ \E portfolio_cash \in TrackerValues : RecordPortfolioValue(portfolio_cash)
    \/ CalculateDrawdown

SpecTracker == Init /\ [][NextTracker]_vars

\* ------------------------------------------------- OrderBook, called directly
BookWorld ==
    [bids |-> _bids, asks |-> _asks, orders |-> _orders,
     cancelled_ids |-> _cancelled_ids, total_orders |-> total_orders]

CommitBook(b) ==
    /\ _bids' = b.bids
    /\ _asks' = b.asks
    /\ _orders' = b.orders
    /\ _cancelled_ids' = b.cancelled_ids
    /\ total_orders' = b.total_orders

Admit(quantity, price, via) ==
    [quantity |-> quantity, price |-> price, timestamp |-> book_now,
     state |-> "live", via |-> via]

AddOrderWithin(cap, quantity, price) ==
    /\ total_orders < cap
    /\ LET r == add_order(BookWorld, Order(BookSymbol, quantity, price, "PENDING", 0),
                          book_now)
       IN  /\ CommitBook(r.b)
           /\ admitted' = DictSet(admitted, r.result, Admit(quantity, price, "add"))
           /\ book_last' = [op |-> "add_order", ok |-> TRUE,
                            val |-> Some(r.result)]
    /\ UNCHANGED <<book_now, engineVars, gatewayVars>>

AddOrder(quantity, price) == AddOrderWithin(MaxBookOrders, quantity, price)

CancelOrder(order_id) ==
    /\ LET r == cancel_order(BookWorld, order_id)
       IN  /\ CommitBook(r.b)
           /\ admitted' = IF r.result
                           THEN [admitted EXCEPT ![order_id].state = "cancelled"]
                           ELSE admitted
           /\ book_last' = [op |-> "cancel_order", ok |-> r.result,
                            val |-> None]
    /\ UNCHANGED <<book_now, engineVars, gatewayVars>>

ModifyOrderWithin(cap, order_id, new_price, new_quantity) ==
    /\ total_orders < cap
    /\ LET r == modify_order(BookWorld, order_id, new_price, new_quantity, book_now)
           old == admitted[order_id]
       IN  /\ CommitBook(r.b)
           /\ admitted' =
                 IF r.result
                 THEN DictSet([admitted EXCEPT ![order_id].state = "cancelled"],
                              total_orders,
                              Admit(IF new_quantity = None THEN old.quantity
                                                           ELSE new_quantity[1],
                                    IF new_price = None THEN old.price
                                                        ELSE new_price[1],
                                    "modify"))
                 ELSE admitted
           /\ book_last' = [op |-> "modify_order", ok |-> r.result,
                            val |-> IF r.result THEN Some(total_orders) ELSE None]
    /\ UNCHANGED <<book_now, engineVars, gatewayVars>>

ModifyOrder(order_id, new_price, new_quantity) ==
    ModifyOrderWithin(MaxBookOrders, order_id, new_price, new_quantity)

GetMatchableOrders ==
    /\ LET r == get_matchable_orders(BookWorld)
       IN  /\ CommitBook(r.b)
           /\ book_last' = [op |-> "get_matchable_orders", ok |-> r.result # None,
                            val |-> r.result]
    /\ UNCHANGED <<book_now, admitted, engineVars, gatewayVars>>

RemoveTop(op, r) ==
    /\ CommitBook(r.b)
    /\ admitted' = IF r.result # None
                    THEN [admitted EXCEPT ![r.result[1]].state = "removed"]
                    ELSE admitted
    /\ book_last' = [op |-> op, ok |-> r.result # None, val |-> r.result]
    /\ UNCHANGED <<book_now, engineVars, gatewayVars>>

RemoveTopBid == RemoveTop("remove_top_bid", remove_top_bid(BookWorld))

RemoveTopAsk == RemoveTop("remove_top_ask", remove_top_ask(BookWorld))

GetBest(op, r) ==
    /\ CommitBook(r.b)
    /\ book_last' = [op |-> op, ok |-> r.result # None, val |-> r.result]
    /\ UNCHANGED <<book_now, admitted, engineVars, gatewayVars>>

GetBestBid == GetBest("get_best_bid", get_best_bid(BookWorld))

GetBestAsk == GetBest("get_best_ask", get_best_ask(BookWorld))

\* the clock the book reads moves on; two calls may read the same instant
BookClockTick ==
    /\ book_now < MaxBookTime
    /\ book_now' = book_now + 1
    /\ UNCHANGED <<_bids, _asks, _orders, _cancelled_ids, total_orders, admitted,
                   book_last, engineVars, gatewayVars>>

OptionOf(S) == {None} \cup {Some(x) : x \in S}

NextBook ==
    \/ \E quantity \in BookQuantities, price \in BookPrices : AddOrder(quantity, price)
    \/ \E order_id \in BookIds : CancelOrder(order_id)
    \/ \E order_id \in BookIds, new_price \in OptionOf(BookPrices),
          new_quantity \in OptionOf(BookQuantities) :
          ModifyOrder(order_id, new_price, new_quantity)
    \/ GetMatchableOrders
    \/ RemoveTopBid
    \/ RemoveTopAsk
    \/ GetBestBid
    \/ GetBestAsk
    \/ BookClockTick

SpecBook == Init /\ [][NextBook]_vars

\* the book when only bids are placed, all within one instant of its clock
AddBid(price) == AddOrderWithin(MaxBidOrders, 1, price)

ModifyBid(order_id, new_price) ==
    ModifyOrderWithin(MaxBidOrders, order_id, new_price, None)

NextBids ==
    \/ \E price \in BookPrices : AddBid(price)
    \/ \E order_id \in BidIds : CancelOrder(order_id)
    \/ \E order_id \in BidIds, new_price \in OptionOf(BookPrices) :
          ModifyBid(order_id, new_price)
    \/ RemoveTopBid
    \/ GetBestBid

SpecBids == Init /\ [][NextBids]_vars

\* ------------------------------------------ MatchingEngine, called directly
\* MatchingEngine(cancel_rate, partial_fill_rate), before it is given any order
NewMatchingEngine(cancel_rate, partial_fill_rate) ==
    /\ me_last.op = "init"
    /\ gw_last.op = "init"
    /\ matching_engine' = MatchingEngine(cancel_rate, partial_fill_rate)
    /\ me_last' = [me_last EXCEPT !.op = "new"]
    /\ UNCHANGED <<me_log, engineVars, bookVars, runVars, gwVars>>

SubscribeOrderUpdates ==
    /\ matching_engine.callbacks < MaxSubscribers
    /\ matching_engine' = subscribe_order_updates(matching_engine)
    /\ me_last' = [me_last EXCEPT !.op = "subscribe_order_updates"]
    /\ UNCHANGED <<me_log, engineVars, bookVars, runVars, gwVars>>

\* process_order(order) with random.random() returning random_value; a caller
\* names its order with an id no order of the engine carries
ProcessOrder(quantity, id, random_value) ==
    /\ Len(me_log) < MaxSubmissions
    /\ id # None => id[1] \notin DOMAIN matching_engine.orders
    /\ LET order == MEOrder("AAPL", quantity, 150, "PENDING", id)
           r == process_order(matching_engine, order, random_value)
       IN  /\ matching_engine' = r.m
           /\ me_log' = Append(me_log, [given |-> order, returned |-> r.result])
           /\ me_last' = [op |-> "process_order", order |-> Some(order),
                          random_value |-> random_value, result |-> Some(r.result),
                          delivered |-> r.delivered]
    /\ UNCHANGED <<engineVars, bookVars, runVars, gwVars>>

NextME ==
    \/ \E r \in RatePairs : NewMatchingEngine(r[1], r[2])
    \/ SubscribeOrderUpdates
    \/ \E quantity \in MEQuantities, id \in OptionOf(CallerIds), random_value \in Draws :
          ProcessOrder(quantity, id, random_value)

SpecME == Init /\ [][NextME]_vars

\* --------------------------------------- SimulationGateway, called directly
\* the gateway is built, around the matching engine or without one, with or
\* without an audit log; its _publish_order_update subscribes to the engine
NewSimulationGateway(has_matching_engine, has_audit_log) ==
    /\ gw_last.op = "init"
    /\ gateway' = SimulationGateway(has_matching_engine, has_audit_log)
    /\ matching_engine' = IF has_matching_engine
                          THEN subscribe_order_updates(matching_engine)
                          ELSE matching_engine
    /\ gw_last' = [gw_last EXCEPT !.op = "new"]
    /\ UNCHANGED <<audit_log, gw_calls, gw_seen, me_log, me_last,
                   engineVars, bookVars, runVars>>

GatewaySubscribeOrderUpdates ==
    /\ gateway.callbacks < MaxSubscribers
    /\ gateway' = [gateway EXCEPT !.callbacks = @ + 1]
    /\ gw_last' = [gw_last EXCEPT !.op = "subscribe_order_updates"]
    /\ UNCHANGED <<audit_log, gw_calls, gw_seen, meVars, engineVars, bookVars, runVars>>

Connect ==
    /\ gw_calls < MaxGatewayCalls
    /\ gateway' = connect(gateway)
    /\ gw_calls' = gw_calls + 1
    /\ gw_last' = [op |-> "connect", exc |-> "none", order |-> None, after |-> None,
                   outcome |-> None, published |-> <<>>]
    /\ UNCHANGED <<audit_log, gw_seen, meVars, engineVars, bookVars, runVars>>

Disconnect ==
    /\ gw_calls < MaxGatewayCalls
    /\ gateway' = disconnect(gateway)
    /\ gw_calls' = gw_calls + 1
    /\ gw_seen' = gw_seen \cup {"disconnect"}
    /\ gw_last' = [op |-> "disconnect", exc |-> "none", order |-> None,
                   after |-> None, outcome |-> None, published |-> <<>>]
    /\ UNCHANGED <<audit_log, meVars, engineVars, bookVars, runVars>>

\* gateway.submit_order(order) with random.random() returning random_value
SubmitOrder(quantity, id, random_value) ==
    /\ gw_calls < MaxGatewayCalls
    /\ id # None => id[1] \notin DOMAIN matching_engine.orders
    /\ LET order == MEOrder("AAPL", quantity, 150, "PENDING", id)
           r == sim_submit_order(gateway, matching_engine, audit_log, order,
                                 random_value)
       IN  /\ matching_engine' = r.m
           /\ audit_log' = r.rows
           /\ gw_last' = [op |-> "submit_order", exc |-> r.exc, order |-> Some(order),
                          after |-> Some(r.order), outcome |-> r.outcome,
                          published |-> r.published]
           /\ gw_seen' = IF r.exc = "none" THEN gw_seen ELSE gw_seen \cup {"rejected"}
    /\ gw_calls' = gw_calls + 1
    /\ UNCHANGED <<gateway, me_log, me_last, engineVars, bookVars, runVars>>

NextGateway ==
    \/ \E r \in RatePairs : NewMatchingEngine(r[1], r[2])
    \/ \E has_matching_engine, has_audit_log \in BOOLEAN :
          NewSimulationGateway(has_matching_engine, has_audit_log)
    \/ GatewaySubscribeOrderUpdates
    \/ Connect
    \/ Disconnect
    \/ \E quantity \in GatewayQuantities, id \in OptionOf(GatewayIds),
          random_value \in GatewayDraws :
          SubmitOrder(quantity, id, random_value)

SpecGateway == Init /\ [][NextGateway]_vars

\* ------------------------------------------------- run() on a worker thread
\* main: gateway_thread = threading.Thread(target=engine.run); start()
StartThread(kind) ==
    /\ host = "main"
    /\ worker' = [worker EXCEPT !.pc = "run", !.kind = kind,
                                !.left = IF kind = "simulation" THEN MaxRows ELSE 0]
    /\ host' = "waiting"
    /\ UNCHANGED <<bus, stop_limit, engineVars, bookVars, meVars, gwVars>>

\* a live gateway is connected by main before the thread starts
ConnectBeforeRun ==
    /\ host = "main"
    /\ ~gateway._connected
    /\ Connect

\* run: if not self._connected
RunCheckConnected ==
    /\ worker.pc = "run"
    /\ worker' = [worker EXCEPT !.pc = IF gateway._connected THEN "loop" ELSE "connect"]
    /\ UNCHANGED <<bus, host, stop_limit, engineVars, bookVars, meVars, gwVars>>

\* run: self.connect()
RunConnect ==
    /\ worker.pc = "connect"
    /\ gateway' = connect(gateway)
    /\ worker' = [worker EXCEPT !.pc = "loop"]
    /\ UNCHANGED <<bus, host, stop_limit, engineVars, bookVars, meVars, audit_log,
                   gw_calls, gw_seen, gw_last>>

\* SimulationGateway.run: for row in reader
NextRow ==
    /\ worker.pc = "loop"
    /\ worker.kind = "simulation"
    /\ worker' = [worker EXCEPT !.pc = IF worker.left = 0 THEN "returned" ELSE "row"]
    /\ UNCHANGED <<bus, host, stop_limit, engineVars, bookVars, meVars, gwVars>>

\* SimulationGateway.run: if not self._connected: break
RowCheck ==
    /\ worker.pc = "row"
    /\ worker' = [worker EXCEPT !.pc = IF gateway._connected THEN "publish"
                                      ELSE "returned"]
    /\ UNCHANGED <<bus, host, stop_limit, engineVars, bookVars, meVars, gwVars>>

\* LiveGateway.run: while self._connected, then for symbol in self.symbols
WhileCheck ==
    /\ worker.pc = "loop"
    /\ worker.kind = "live"
    /\ worker.polls < MaxPolls \/ ~gateway._connected
    /\ worker' = IF gateway._connected
                 THEN [worker EXCEPT !.pc = "publish", !.left = NumSymbols,
                                     !.polls = @ + 1]
                 ELSE [worker EXCEPT !.pc = "returned"]
    /\ UNCHANGED <<bus, host, stop_limit, engineVars, bookVars, meVars, gwVars>>

\* self._publish_market_data(data_point); a subscribed callback may call
\* gateway.disconnect() while it runs
PublishTick(callback_disconnects) ==
    /\ worker.pc = "publish"
    /\ worker' = [worker EXCEPT
                     !.ticks = @ + 1,
                     !.left = @ - 1,
                     !.pc = IF worker.kind = "live" /\ worker.left > 1
                            THEN "publish" ELSE "loop"]
    /\ gateway' = IF callback_disconnects THEN disconnect(gateway) ELSE gateway
    /\ stop_limit' = IF callback_disconnects /\ stop_limit = None
                     THEN Some(worker.ticks + 1) ELSE stop_limit
    /\ UNCHANGED <<bus, host, engineVars, bookVars, meVars, audit_log, gw_calls, gw_seen,
                   gw_last>>

\* main, on KeyboardInterrupt: gateway._connected = False
HostStop ==
    /\ host = "waiting"
    /\ gateway' = [gateway EXCEPT !._connected = FALSE]
    /\ host' = "interrupted"
    /\ stop_limit' = IF stop_limit # None THEN stop_limit
                     ELSE Some(worker.ticks + IF worker.pc = "publish" THEN 1 ELSE 0)
    /\ UNCHANGED <<bus, worker, engineVars, bookVars, meVars, audit_log, gw_calls, gw_seen,
                   gw_last>>

\* main, finally (after join(timeout=2.0), or once the thread is not alive):
\* if gateway._connected: gateway.disconnect()
HostFinally ==
    /\ host = "interrupted" \/ (host = "waiting" /\ worker.pc = "returned")
    /\ gateway' = IF gateway._connected THEN disconnect(gateway) ELSE gateway
    /\ host' = "finished"
    /\ UNCHANGED <<bus, worker, stop_limit, engineVars, bookVars, meVars, audit_log,
                   gw_calls, gw_seen, gw_last>>

\* main, finally: portfolio.get_cash(), portfolio.get_all_holdings() and
\* performance_tracker.calculate_metrics() for the final state and the report
HostReport ==
    /\ host = "finished"
    /\ host' = "reported"
    /\ UNCHANGED <<bus, worker, stop_limit, engineVars, bookVars, meVars, gwVars>>

NextRun ==
    \/ \E kind \in GatewayKinds : StartThread(kind)
    \/ ConnectBeforeRun
    \/ RunCheckConnected
    \/ RunConnect
    \/ NextRow
    \/ RowCheck
    \/ WhileCheck
    \/ \E callback_disconnects \in BOOLEAN : PublishTick(callback_disconnects)
    \/ HostStop
    \/ HostFinally
    \/ HostReport

SpecRun == Init /\ [][NextRun]_vars

\* --------------------------------- run() and its callbacks, in one thread
\* Gateway._publish_order_update over the callbacks of one submit_order: the
\* deliveries in order, up to the callback that raises
RECURSIVE deliver_updates(_, _, _, _, _, _)
deliver_updates(g, published, k, t, by, raises) ==
    IF k > Len(published) THEN [log |-> <<>>, exc |-> FALSE]
    ELSE LET to == ((k - 1) % g.callbacks) + 1
             ev == [kind |-> "update", t |-> t, by |-> by, to |-> to, n |-> 0]
         IN  IF to = raises THEN [log |-> <<ev>>, exc |-> TRUE]
             ELSE LET rest == deliver_updates(g, published, k + 1, t, by, raises)
                  IN  [rest EXCEPT !.log = <<ev>> \o @]

\* Gateway._publish_market_data(tick t) from callback i on; the callbacks in
\* submits call gateway.submit_order, as TradingEngine._on_market_data does,
\* and an exception of an order-update callback leaves through all of them
RECURSIVE publish_market_data(_, _, _, _, _, _, _, _, _)
publish_market_data(g, m, rows, t, i, submits, quantity, random_value, raises) ==
    IF i > g.md_callbacks THEN [m |-> m, rows |-> rows, log |-> <<>>, exc |-> FALSE]
    ELSE LET tick == [kind |-> "tick", t |-> t, by |-> 0, to |-> i, n |-> 0]
         IN  IF i \notin submits
             THEN LET rest == publish_market_data(g, m, rows, t, i + 1, submits,
                                                  quantity, random_value, raises)
                  IN  [rest EXCEPT !.log = <<tick>> \o @]
             ELSE LET r == sim_submit_order(g, m, rows,
                               MEOrder("AAPL", quantity, 150, "PENDING", None),
                               random_value)
                      n == IF r.outcome = None THEN 0
                           ELSE IF g.matching_engine THEN r.m.callbacks ELSE 1
                      sub == [kind |-> "submit", t |-> t, by |-> i, to |-> 0, n |-> n]
                      d == deliver_updates(g, r.published, 1, t, i, raises)
                  IN  IF r.exc # "none" \/ d.exc
                      THEN [m |-> r.m, rows |-> r.rows,
                            log |-> <<tick, sub>> \o d.log, exc |-> TRUE]
                      ELSE LET rest == publish_market_data(g, r.m, r.rows, t, i + 1,
                                           submits, quantity, random_value, raises)
                           IN  [rest EXCEPT !.log = <<tick, sub>> \o d.log \o @]

\* gateway.subscribe_market_data(callback), before run()
SubscribeMarketData ==
    /\ bus.pc = "idle"
    /\ gateway.md_callbacks < MaxSubscribers
    /\ gateway' = [gateway EXCEPT !.md_callbacks = @ + 1]
    /\ UNCHANGED <<audit_log, gw_calls, gw_seen, gw_last, meVars, engineVars, bookVars,
                   runVars>>

\* gateway.subscribe_order_updates(callback), before run()
BusSubscribeOrderUpdates ==
    /\ bus.pc = "idle"
    /\ GatewaySubscribeOrderUpdates

\* run(): if not self._connected: self.connect(), then the file is opened
BusRun ==
    /\ bus.pc = "idle"
    /\ gw_last.op # "init"
    /\ gateway' = IF gateway._connected THEN gateway ELSE connect(gateway)
    /\ bus' = [bus EXCEPT !.pc = "loop"]
    /\ UNCHANGED <<audit_log, gw_calls, gw_seen, gw_last, meVars, engineVars, bookVars,
                   worker, host, stop_limit>>

\* run(): one row of the file, published to every subscriber
BusRow(submits, quantity, random_value, raises) ==
    /\ bus.pc = "loop"
    /\ bus.rows < MaxBusRows
    /\ submits \subseteq 1..gateway.md_callbacks
    /\ raises <= gateway.callbacks
    /\ IF ~gateway._connected
       THEN /\ bus' = [bus EXCEPT !.pc = "returned"]
            /\ UNCHANGED <<matching_engine, audit_log>>
       ELSE LET r == publish_market_data(gateway, matching_engine, audit_log,
                                         bus.rows + 1, 1, submits, quantity,
                                         random_value, raises)
            IN  /\ bus' = [bus EXCEPT !.rows = @ + 1, !.log = @ \o r.log,
                                      !.pc = IF r.exc THEN "raised" ELSE "loop"]
                /\ matching_engine' = r.m
                /\ audit_log' = r.rows
    /\ UNCHANGED <<gateway, me_log, me_last, gw_calls, gw_seen, gw_last, engineVars,
                   bookVars, worker, host, stop_limit>>

\* run(): the reader has no more rows
BusEnd ==
    /\ bus.pc = "loop"
    /\ bus' = [bus EXCEPT !.pc = "returned"]
    /\ UNCHANGED <<gwVars, meVars, engineVars, bookVars, worker, host, stop_limit>>

NextBus ==
    \/ \E r \in RatePairs : NewMatchingEngine(r[1], r[2])
    \/ \E has_matching_engine, has_audit_log \in BOOLEAN :
          NewSimulationGateway(has_matching_engine, has_audit_log)
    \/ SubscribeMarketData
    \/ BusSubscribeOrderUpdates
    \/ BusRun
    \/ \E submits \in SUBSET (1..MaxSubscribers), quantity \in GatewayQuantities,
          random_value \in GatewayDraws, raises \in 0..MaxSubscribers :
          BusRow(submits, quantity, random_value, raises)
    \/ BusEnd

SpecBus == Init /\ [][NextBus]_vars

\* ------------------------------------------------------------ claims
RECURSIVE SumOver(_, _)
SumOver(f, ks) ==
    IF ks = {} THEN 0
    ELSE LET k == CHOOSE x \in ks : TRUE IN f[k] + SumOver(f, ks \ {k})

AppliedCost == SumOver([o \in DOMAIN hist |-> orders[o].price * hist[o].applied],
                       DOMAIN hist)

AppliedQty(symbol) ==
    SumOver([o \in DOMAIN hist |->
                IF orders[o].symbol = symbol THEN hist[o].applied ELSE 0],
            DOMAIN hist)

EventStep == nTicks' + nUpdates' = nTicks + nUpdates + 1

\* signed quantity the callback of this step applied for its order
AppliedNow ==
    hist'[last'.order].applied
        - (IF last'.order \in DOMAIN hist THEN hist[last'.order].applied ELSE 0)

C2_RejectedNeverSubmitted ==
    \A o \in DOMAIN hist :
        ~hist[o].valid =>
            (o \notin submitted /\ hist[o].applied = 0 /\ ~hist[o].failed)

\* C3: when every submitted order passed validation and every order's updates
\* came in protocol order, cash is never negative and no holding is negative.
C3_Solvency ==
    (\A o \in DOMAIN hist : hist[o].valid /\ hist[o].proto) =>
        (cash >= 0 /\ \A s \in DOMAIN holdings : holdings[s].quantity >= 0)

\* C4: an order's filled_quantity never decreases from one update to the next
\* and never exceeds |quantity|.
C4_FillMonotone ==
    [][\A o \in DOMAIN orders :
          /\ orders'[o].filled_quantity >= orders[o].filled_quantity
          /\ orders'[o].filled_quantity <= Abs(orders'[o].quantity)]_vars

\* C5: update_order_fill never returns a negative new delta, and nothing is
\* ever applied against the direction of the order.
C5_DeltaClamped ==
    /\ last.delta >= 0
    /\ \A o \in DOMAIN hist : Sign(orders[o].quantity) * hist[o].applied >= 0

\* C6: a Canceled or Failed update changes neither cash nor holdings, leaves
\* what was applied for the order in place and takes the order out of the
\* active-order set.
C6_CancelFrame ==
    [][(EventStep /\ last'.status \in {"CANCELED", "FAILED"}) =>
          /\ cash' = cash
          /\ holdings' = holdings
          /\ trades' = trades
          /\ last'.order \notin DOMAIN active_orders'
          /\ (last'.order \in DOMAIN hist =>
                 hist'[last'.order].applied = hist[last'.order].applied)]_vars

\* a partially filled order was canceled; its partial fill is still held
C6_Witness ==
    /\ last.kind = "update" /\ last.status = "CANCELED"
    /\ hist[last.order].applied > 0
    /\ get_holding(holdings, orders[last.order].symbol).quantity
           = hist[last.order].applied
    /\ last.order \notin DOMAIN active_orders

\* C7: an order stays in the active-order set across a PartiallyFilled update,
\* and no order whose last processed update was Filled, Canceled or Failed is
\* in the active-order set.
C7_ActiveSet ==
    /\ [](\A o \in DOMAIN hist :
             hist[o].lastStatus \in Terminal => o \notin DOMAIN active_orders)
    /\ [][(EventStep /\ last'.kind = "update" /\ last'.status = "PARTIALLY_FILLED") =>
             last'.order \in DOMAIN active_orders']_vars

\* an order went Active, PartiallyFilled (still tracked), then Filled (dropped)
C7_Witness ==
    /\ nTicks = 1 /\ nUpdates = 2
    /\ Len(trades) = 2
    /\ hist[1].lastStatus = "FILLED"
    /\ hist[1].proto
    /\ active_orders = EmptyDict

\* C8: when applying a fill fails, cash, holdings and the trade journal are as
\* they were before the callback.
C8_FailedApplyFrame ==
    [][(EventStep /\ last'.apply \in {"ValueError", "OrderError"}) =>
          /\ cash' = cash
          /\ holdings' = holdings
          /\ trades' = trades]_vars

\* C9: no exception leaves an engine callback.
C9_NoEscape == last.exc = "none"

Live(side) ==
    {id \in DOMAIN admitted :
        admitted[id].state = "live" /\ Sign(admitted[id].quantity) = side}

LivePrices(side) == {admitted[id].price : id \in Live(side)}

MaxOf(S) == CHOOSE m \in S : \A x \in S : x <= m

MinOf(S) == CHOOSE m \in S : \A x \in S : m <= x

BestBidExpected == IF Live(1) = {} THEN None ELSE Some(MaxOf(LivePrices(1)))

BestAskExpected == IF Live(-1) = {} THEN None ELSE Some(MinOf(LivePrices(-1)))

\* C10: in every state the book reaches by add_order, cancel_order, modify_order
\* and remove_top_* calls, get_best_bid returns the highest price among the live
\* buy orders and get_best_ask the lowest price among the live sell orders, each
\* returning None when its side has no live order; the calls actually made
\* returned just that.
C10_BestPrices ==
    /\ get_best_bid(BookWorld).result = BestBidExpected
    /\ get_best_ask(BookWorld).result = BestAskExpected
    /\ book_last.op = "get_best_bid" => book_last.val = BestBidExpected
    /\ book_last.op = "get_best_ask" => book_last.val = BestAskExpected

\* get_best_bid answered the lower price while a cancelled higher bid is known
C10_Witness ==
    /\ book_last.op = "get_best_bid"
    /\ book_last.val = Some(1)
    /\ \E id \in _cancelled_ids :
          admitted[id].quantity > 0 /\ admitted[id].price = 2
    /\ \E id \in DOMAIN admitted : admitted[id].state = "removed"

\* the heap of one side as the next call will see it, its top cleaned
Heap(side) == _clean_top(IF side = 1 THEN _bids ELSE _asks, _cancelled_ids)

\* live orders of one side resting at the price of entry id
LiveAtPriceOf(side, id) ==
    {e \in Live(side) : admitted[e].price = admitted[id].price}

\* C11: on either side the entry at the head of the book (the one
\* get_matchable_orders and remove_top_* return) is the earliest admitted of
\* the live orders at its price, also when two orders were added within the
\* same instant of the clock; an entry remove_top_* returned leaves no live
\* order of its side and price behind that was admitted before it.
C11_TimePriority ==
    /\ \A side \in {1, -1} :
          Heap(side) # <<>> =>
              \A e \in LiveAtPriceOf(side, Heap(side)[1].order_id) :
                  Heap(side)[1].order_id <= e
    /\ book_last.op = "remove_top_bid" /\ book_last.val # None =>
          \A e \in LiveAtPriceOf(1, book_last.val[1]) : book_last.val[1] < e
    /\ book_last.op = "remove_top_ask" /\ book_last.val # None =>
          \A e \in LiveAtPriceOf(-1, book_last.val[1]) : book_last.val[1] < e

\* a step in which the call op was made
BookStep(op) == book_last'.op = op /\ book_now' = book_now /\ bookVars' # bookVars

\* C12: an entry cancel_order cancelled (returning true) is never the entry a
\* later get_best_*, get_matchable_orders or remove_top_* call answers with:
\* the head each such call reads is a live entry, and every entry
\* remove_top_* or get_matchable_orders returns was live when the call was made.
C12_CancelledNeverReturned ==
    /\ [](\A side \in {1, -1} :
             Heap(side) # <<>> => admitted[Heap(side)[1].order_id].state = "live")
    /\ [][\A op \in {"remove_top_bid", "remove_top_ask", "get_matchable_orders"} :
             BookStep(op) =>
                 \A i \in DOMAIN book_last'.val :
                     admitted[book_last'.val[i]].state = "live"]_vars

\* a cancelled bid was still the top of the heap, and remove_top_bid returned
\* the live bid behind it
C12_Witness ==
    /\ book_last.op = "remove_top_bid"
    /\ book_last.val # None
    /\ \E id \in _cancelled_ids :
          /\ admitted[id].quantity > 0
          /\ admitted[id].price > admitted[book_last.val[1]].price

\* C14: cancel_order and modify_order with an id that is unknown, already
\* cancelled or already removed return false and leave both heaps, the
\* live-order map, the cancelled set and the order counter as they were; with
\* the id of a live order they return true.
C14_UnknownIdNoOp ==
    [][\A op \in {"cancel_order", "modify_order"} :
          BookStep(op) =>
              /\ book_last'.ok = (\E id \in DOMAIN admitted :
                                     /\ admitted[id].state = "live"
                                     /\ admitted'[id].state = "cancelled")
              /\ ~book_last'.ok =>
                    /\ <<_bids, _asks, _orders, _cancelled_ids, total_orders>>'
                           = <<_bids, _asks, _orders, _cancelled_ids, total_orders>>
                    /\ admitted' = admitted]_vars

\* cancel_order was refused for an id that had been cancelled before, while
\* that entry was still lying in a heap
C14_Witness ==
    /\ book_last.op = "cancel_order"
    /\ ~book_last.ok
    /\ \E id \in _cancelled_ids :
          \E i \in DOMAIN _bids : _bids[i].order_id = id

\* the order ids of a heap in the order remove_top_* would hand them out
RECURSIVE Drain(_, _)
Drain(heap, cancelled_ids) ==
    LET h == _clean_top(heap, cancelled_ids)
    IN  IF h = <<>> THEN <<>>
        ELSE <<h[1].order_id>> \o Drain(heappop(h).heap, cancelled_ids)

Rank(side, id) ==
    LET d == Drain(IF side = 1 THEN _bids ELSE _asks, _cancelled_ids)
    IN  CHOOSE i \in DOMAIN d : d[i] = id

\* C13: the entry a successful modify_order put into the book ranks behind
\* every live order of its side and price that was admitted before the modify.
C13_ModifyLosesPriority ==
    \A side \in {1, -1} :
        \A m \in Live(side) :
            admitted[m].via = "modify" =>
                \A e \in LiveAtPriceOf(side, m) :
                    e < m => Rank(side, e) < Rank(side, m)

\* --- MatchingEngine
MECalled == me_last.op = "process_order"

\* C15: process_order with draw u publishes exactly one update to each
\* subscriber, and the outcome is Canceled with filled_quantity 0 if
\* u < cancel_rate, PartiallyFilled if cancel_rate <= u < cancel_rate +
\* partial_fill_rate, otherwise Filled with filled_quantity = |quantity|,
\* for buys and sells alike
C15_OutcomeByDraw ==
    MECalled =>
        LET m == matching_engine
            order == me_last.order[1]
            out == me_last.result[1]
            u == me_last.random_value
        IN  /\ Len(me_last.delivered) = m.callbacks
            /\ \A s \in 1..Len(me_last.delivered) : me_last.delivered[s] = out
            /\ IF u < m.cancel_rate
               THEN out.status = "CANCELED" /\ out.filled_quantity = Some(0)
               ELSE IF u < m.cancel_rate + m.partial_fill_rate
               THEN out.status = "PARTIALLY_FILLED"
               ELSE /\ out.status = "FILLED"
                    /\ out.filled_quantity = Some(Abs(order.quantity))

\* C16: a PartiallyFilled outcome reports floor(|quantity|/3), which lies
\* strictly between 0 and |quantity|; an order with |quantity| < 3 is never
\* PartiallyFilled: it is Filled with |quantity|
C16_PartialThird ==
    MECalled =>
        LET m == matching_engine
            order == me_last.order[1]
            out == me_last.result[1]
            u == me_last.random_value
            third == Abs(order.quantity) \div 3
        IN  /\ out.status = "PARTIALLY_FILLED" =>
                  /\ out.filled_quantity = Some(third)
                  /\ 0 < third /\ third < Abs(order.quantity)
            /\ (/\ Abs(order.quantity) < 3
                /\ m.cancel_rate <= u
                /\ u < m.cancel_rate + m.partial_fill_rate) =>
                  /\ out.status = "FILLED"
                  /\ out.filled_quantity = Some(Abs(order.quantity))

\* C17: every published update carries an id, the caller's when it gave one
\* and a generated one otherwise, and no two submitted orders have the same
\* id in the engine's order map
C17_IdsDistinct ==
    /\ MECalled =>
          /\ \A s \in 1..Len(me_last.delivered) : me_last.delivered[s].id # None
          /\ me_last.order[1].id # None => me_last.result[1].id = me_last.order[1].id
    /\ \A i, j \in 1..Len(me_log) :
          i # j => me_log[i].returned.id # me_log[j].returned.id
    /\ Cardinality(DOMAIN matching_engine.orders) = Len(me_log)

\* --- SimulationGateway
SubmitStep == gw_last'.op = "submit_order" /\ gw_calls' = gw_calls + 1

\* C18: after submit_order returned without raising, the caller's order
\* object has an id, and an id it had before is the id it still has
C18_IdAssignedOnce ==
    (gw_last.op = "submit_order" /\ gw_last.exc = "none") =>
        /\ gw_last.after[1].id # None
        /\ gw_last.order[1].id # None => gw_last.after[1].id = gw_last.order[1].id

\* C19: submit_order on a gateway that is not connected (never connected, or
\* disconnected) raises the not-connected error, publishes nothing, writes
\* no audit row and leaves the order and the matching engine as they were;
\* on a connected gateway, a reconnected one included, it does not raise
C19_NotConnected ==
    [][SubmitStep =>
          IF gateway._connected
          THEN gw_last'.exc = "none"
          ELSE /\ gw_last'.exc = "RuntimeError"
               /\ gw_last'.published = <<>>
               /\ audit_log' = audit_log
               /\ gw_last'.after = gw_last'.order
               /\ matching_engine' = matching_engine]_vars

\* an order accepted by a gateway that was disconnected, rejected an order
\* and was connected again
C19_Witness ==
    /\ gw_last.op = "submit_order"
    /\ gw_last.exc = "none"
    /\ gw_seen = {"disconnect", "rejected"}
    /\ gw_last.published # <<>>

\* --- run() and the connected flag
\* C20: once the connected flag has been set to false after the worker thread
\* was started (by the host thread, or by disconnect() in a callback), run()
\* publishes no tick beyond the one that was in progress at that moment
C20_StopNeverLost == stop_limit # None => worker.ticks <= stop_limit[1]

\* --- rate limit
\* orders that passed validate_order within the minute that ends at time t
PassedWithin(t) ==
    {o \in DOMAIN hist : hist[o].valid /\ t - OneMinute <= hist[o].at /\ hist[o].at <= t}

\* C21: no more than max_orders_per_minute orders pass validate_order within
\* any one minute, whatever outcome the gateway gives each of them
C21_RateLimit ==
    \A t \in 0..now : Cardinality(PassedWithin(t)) <= max_orders_per_minute

\* --- audit log
\* the rows a step appends to the audit file
NewRows == SubSeq(audit_log', Len(audit_log) + 1, Len(audit_log'))

\* C22: on a gateway built with an audit log, a submit_order that is accepted
\* writes exactly one SENT row and, when it leaves the order Filled, Canceled
\* or Failed, exactly one FILLED or CANCELLED row after it; also on a gateway
\* that was disconnected and connected again
C22_AuditRows ==
    [][(SubmitStep /\ gw_last'.exc = "none" /\ gateway.audit_log_path) =>
          /\ Len(audit_log') >= Len(audit_log)
          /\ NewRows # <<>> /\ Head(NewRows) = "SENT"
          /\ IF gw_last'.outcome[1].status \in Terminal
             THEN /\ Len(NewRows) = 2
                  /\ NewRows[2] \in {"FILLED", "CANCELLED"}
             ELSE Len(NewRows) = 1]_vars

\* --- SimplePortfolio
\* C23: after add_to_holding and apply_order calls, failed ones included, the
\* holdings map has no entry whose quantity is 0
C23_NoZeroHolding == \A symbol \in DOMAIN holdings : holdings[symbol].quantity # 0

PortfolioStep == pf_last'.calls = pf_last.calls + 1

TrackerStep(op) == pt_last'.op = op /\ pt_last'.calls = pt_last.calls + 1

\* C25: a buy of q at p1 that opens the position, followed by a sell of q at
\* p2 of the same symbol, adds the one entry (p2 - p1) * q to closed_pnls
\* and removes the position
C25_RoundTrip ==
    [][(/\ TrackerStep("record_trade")
        /\ pt_last.op = "record_trade"
        /\ pt_last.opened
        /\ pt_last.quantity > 0
        /\ pt_last'.symbol = pt_last.symbol
        /\ pt_last'.quantity = -pt_last.quantity) =>
           /\ closed_pnls' = Append(closed_pnls,
                  FracInt((pt_last'.price - pt_last.price) * pt_last.quantity))
           /\ pt_last.symbol \notin DOMAIN positions']_vars

\* bought 3 at 1 and sold 3 at 3: closed_pnls holds 6
C25_Witness ==
    /\ pt_last.op = "record_trade"
    /\ pt_last.quantity = -3
    /\ pt_last.price = 3
    /\ closed_pnls = <<FracInt(6)>>
    /\ Len(trades) = 2
    /\ positions = EmptyDict

\* C26: a trade against an existing position realizes the P&L of the closed
\* portion, also when it does not close the position: closed_pnls gains
\* (price - avg_entry) * closed_qty, the sign flipped for a short position
C26_PartialRealized ==
    [][(/\ TrackerStep("record_trade")
        /\ pt_last'.symbol \in DOMAIN positions
        /\ positions[pt_last'.symbol].quantity * pt_last'.quantity < 0) =>
           LET pos == positions[pt_last'.symbol]
               a == pos.avg_entry_price
               closed_qty == IF Abs(pt_last'.quantity) < Abs(pos.quantity)
                             THEN Abs(pt_last'.quantity) ELSE Abs(pos.quantity)
               gain == IF pos.quantity > 0
                       THEN Frac((pt_last'.price * a.d - a.n) * closed_qty, a.d)
                       ELSE Frac((a.n - pt_last'.price * a.d) * closed_qty, a.d)
           IN  closed_pnls' = Append(closed_pnls, gain)]_vars

\* the largest of the first t samples of the curve
RECURSIVE PeakUpTo(_, _)
PeakUpTo(curve, t) ==
    IF t = 1 THEN curve[1][2]
    ELSE LET p == PeakUpTo(curve, t - 1)
         IN  IF FracLess(p, curve[t][2]) THEN curve[t][2] ELSE p

\* C27: for a recorded equity sequence v_1..v_n and any initial_capital, the
\* computed max_drawdown is the largest over t of (max over s <= t of v_s) - v_t,
\* the peak taken over the recorded samples only.
C27_DrawdownOverSamples ==
    (pt_last.op = "_calculate_drawdown" /\ equity_curve # <<>>) =>
        LET dd(t) == FracSub(PeakUpTo(equity_curve, t), equity_curve[t][2])
        IN  /\ \E t \in 1..Len(equity_curve) : pt_last.result[1][1] = dd(t)
            /\ \A t \in 1..Len(equity_curve) : ~FracLess(pt_last.result[1][1], dd(t))

\* --- sampling interval
\* the bucket of a timestamp in seconds under RecordingInterval SECOND ("1s")
\* and MINUTE ("1m")
BucketKey(interval, ts) == IF interval = "1s" THEN ts ELSE ts \div 60

\* C28: under a RecordingInterval other than TICK a tick appends an equity
\* sample only when its bucket differs from the bucket of the sample recorded
\* before it, so no two consecutive samples share a bucket
C28_OneSamplePerBucket ==
    \A interval \in {"1s", "1m"} : \A i \in 1..(Len(equity_curve) - 1) :
        BucketKey(interval, equity_curve[i][1]) # BucketKey(interval, equity_curve[i + 1][1])

\* --- threads
\* a step in which the host thread closes the audit log (disconnect() in the
\* finally block) or reads the Portfolio and the PerformanceTracker
HostTouchesShared ==
    \/ host # "finished" /\ host' = "finished" /\ gateway._connected
    \/ host = "finished" /\ host' = "reported"

\* C29: the host thread touches the Portfolio, the PerformanceTracker or the
\* audit log only once run() has returned on the worker thread, also after a
\* shutdown whose join timed out; the connected flag is all the two share
C29_HostKeepsOff == [][HostTouchesShared => worker.pc = "returned"]_vars

\* --- delivery order
\* the deliveries of the updates of the order that callback by submitted
\* during tick t, to subscriber j, between positions p and q of the log
UpdatesBetween(p, q, t, by, j) ==
    {k \in (p + 1)..(q - 1) : /\ bus.log[k].kind = "update"
                              /\ bus.log[k].t = t
                              /\ bus.log[k].by = by
                              /\ bus.log[k].to = j}

\* C30: when tick t+1 is published to a market-data subscriber, every update
\* of an order submitted during tick t has been delivered to every
\* order-update subscriber; the ticks reach the subscribers in stream order
C30_UpdatesBeforeNextTick ==
    /\ \A p, q \in 1..Len(bus.log) :
          (/\ bus.log[p].kind = "submit"
           /\ bus.log[q].kind = "tick"
           /\ bus.log[q].t = bus.log[p].t + 1) =>
              \A j \in 1..gateway.callbacks :
                  Cardinality(UpdatesBetween(p, q, bus.log[p].t, bus.log[p].by, j))
                      = bus.log[p].n
    /\ \A p, q \in 1..Len(bus.log) :
          (p < q /\ bus.log[p].kind = "tick" /\ bus.log[q].kind = "tick") =>
              /\ bus.log[p].t <= bus.log[q].t
              /\ bus.log[p].to = bus.log[q].to => bus.log[p].t < bus.log[q].t
    /\ \A q \in 1..Len(bus.log) :
          (bus.log[q].kind = "tick" /\ bus.log[q].t > 1) =>
              \E p \in 1..(q - 1) : /\ bus.log[p].kind = "tick"
                                   /\ bus.log[p].to = bus.log[q].to
                                   /\ bus.log[p].t = bus.log[q].t - 1

\* tick 2 was published after an order of tick 1 had an update delivered to
\* two order-update subscribers
C30_Witness ==
    /\ gateway.callbacks = 2
    /\ \E p, q \in 1..Len(bus.log) :
          /\ bus.log[p].kind = "submit" /\ bus.log[p].t = 1 /\ bus.log[p].n = 1
          /\ bus.log[q].kind = "tick" /\ bus.log[q].t = 2
          /\ UpdatesBetween(p, q, 1, bus.log[p].by, 2) # {}

\* --- the engine's bookkeeping of fills and exposure
UpdateStep(status) == EventStep /\ last'.kind = "update" /\ last'.status = status

\* C31: an Active update with filled_quantity > 0 is a fill delta: the engine
\* applies sign(quantity) * (reported filled - filled known before) to the
\* portfolio, as the PartiallyFilled path does
C31_ActiveFillDelta ==
    [][(UpdateStep("ACTIVE") /\ orders'[last'.order].filled_quantity > 0) =>
          AppliedNow = Sign(orders[last'.order].quantity)
                         * (orders'[last'.order].filled_quantity
                              - DictGet(active_orders, last'.order, 0))]_vars

\* C32: position_value[symbol] takes an order's qty * price on its first
\* admission only: a second Active update for an order the engine has already
\* recorded leaves position_values as they were
C32_FirstAdmissionOnly ==
    [][(/\ UpdateStep("ACTIVE")
        /\ last'.order \in DOMAIN hist
        /\ hist[last'.order].lastStatus = "ACTIVE") =>
          position_values' = position_values]_vars

\* the orders of a symbol that were handed to the gateway
SubmittedFor(symbol) == {o \in submitted : orders[o].symbol = symbol}

\* C33: position_value(symbol) is the notional of the symbol's open orders, so
\* an order removed from the active set as Canceled or Failed contributes
\* nothing any more: when every order submitted for a symbol has ended so, the
\* symbol's position_value is 0
C33_ClosedOrdersFree ==
    \A symbol \in Symbols :
        (\A o \in SubmittedFor(symbol) : hist[o].lastStatus \in {"CANCELED", "FAILED"}) =>
            DictGet(position_values, symbol, 0) = 0

\* C34: with max_position_size set, |position_value(symbol)| never exceeds it
\* in a state reached by orders going through the engine
C34_ExposureCapped ==
    max_position_size # 0 =>
        \A symbol \in Symbols : Abs(DictGet(position_values, symbol, 0)) <= max_position_size

\* --- can_execute_order
\* C35: can_execute_order changes nothing in the portfolio, and on a portfolio
\* with non-negative cash and holdings it answers true exactly when applying
\* the same order as a fill to that portfolio succeeds: for a buy when
\* cash >= price * quantity, for a sell when the held quantity >= |quantity|
C35_CanExecuteMirrorsApply ==
    [][(PortfolioStep /\ pf_last'.op = "can_execute_order") =>
          LET q == pf_last'.quantity
              fill == Order(pf_last'.symbol, q, pf_last'.price, "FILLED", Abs(q))
              answer == pf_last'.result[1]
          IN  /\ cash' = cash
              /\ holdings' = holdings
              /\ (cash >= 0 /\ \A sym \in DOMAIN holdings : holdings[sym].quantity >= 0) =>
                    /\ answer <=> apply_order(World, fill).exc = "none"
                    /\ q > 0 => (answer <=> cash >= pf_last'.price * q)
                    /\ q < 0 => (answer <=>
                                   get_holding(holdings, pf_last'.symbol).quantity >= -q)]_vars

\* a sell of 2 was refused while 1 was held, and cash was not negative
C35_Witness ==
    /\ pf_last.op = "can_execute_order"
    /\ pf_last.quantity = -2
    /\ pf_last.result = Some(FALSE)
    /\ cash >= 0
    /\ get_holding(holdings, pf_last.symbol).quantity = 1

\* C36: whatever updates are delivered for an order (a cumulative filled that
\* drops and rises again, Filled twice, a fill after Canceled or Filled), what
\* was applied to the portfolio for it never exceeds the largest cumulative
\* filled_quantity reported, hence never |quantity|
C36_AppliedWithinReported ==
    \A o \in DOMAIN hist :
        /\ Sign(orders[o].quantity) * hist[o].applied <= hist[o].reported
        /\ Sign(orders[o].quantity) * hist[o].applied <= Abs(orders[o].quantity)

\* C37: an order puts one timestamp into the rate-limit window over its whole
\* life: an update for an order whose Active update the engine has recorded
\* adds no further timestamp, whatever its status
C37_OneTimestampPerOrder ==
    [][(/\ EventStep
        /\ last'.kind = "update"
        /\ last'.order \in DOMAIN hist
        /\ hist[last'.order].lastStatus = "ACTIVE") =>
          order_timestamps' = order_timestamps]_vars

\* the ids cancel_order has retired, called directly or by modify_order
Retired == {id \in DOMAIN admitted : admitted[id].state = "cancelled"}

\* C38: a successful modify_order(id, ...) retires id and puts the replacement
\* under an id no order has had before; from then on cancel_order(id) and
\* modify_order(id, ...) return false and leave the book, the replacement
\* included, as it was; and every id add_order returns is new.
C38_ModifyRetiresId ==
    /\ [][BookStep("modify_order") /\ book_last'.ok =>
             \E id \in DOMAIN _orders :
                 LET fresh == total_orders
                 IN  /\ id \notin DOMAIN _orders'
                     /\ id \in Retired'
                     /\ fresh \notin DOMAIN admitted
                     /\ fresh # id
                     /\ fresh \in DOMAIN _orders'
                     /\ admitted'[fresh].via = "modify"
                     /\ _orders'[fresh].order.quantity = admitted'[fresh].quantity
                     /\ _orders'[fresh].order.price = admitted'[fresh].price
                     /\ \E i \in DOMAIN (IF admitted'[fresh].quantity > 0
                                          THEN _bids' ELSE _asks') :
                            (IF admitted'[fresh].quantity > 0
                             THEN _bids' ELSE _asks')[i].order_id = fresh]_vars
    /\ [][\A id \in Retired :
             /\ cancel_order(BookWorld, id) = [b |-> BookWorld, result |-> FALSE]
             /\ \A new_price \in OptionOf(BookPrices),
                   new_quantity \in OptionOf(BookQuantities) :
                    modify_order(BookWorld, id, new_price, new_quantity, book_now)
                        = [b |-> BookWorld, result |-> FALSE]
             /\ CancelOrder(id) => ~book_last'.ok /\ _orders' = _orders
             /\ \A new_price \in OptionOf(BookPrices),
                   new_quantity \in OptionOf(BookQuantities) :
                    ModifyOrder(id, new_price, new_quantity)
                        => ~book_last'.ok /\ _orders' = _orders]_vars
    /\ [][BookStep("add_order") =>
             /\ book_last'.val[1] \notin DOMAIN admitted
             /\ book_last'.val[1] \in DOMAIN admitted']_vars

\* cancel_order was refused while the only two ids the book has issued are a
\* retired one and the live replacement modify_order made for it
C38_Witness ==
    /\ book_last.op = "cancel_order"
    /\ ~book_last.ok
    /\ DOMAIN admitted = {0, 1}
    /\ admitted[0].state = "cancelled"
    /\ admitted[1].via = "modify"
    /\ admitted[1].state = "live"
    /\ 1 \in DOMAIN _orders

\* the quantity the tracker holds of symbol (no position: nothing held)
TrackedQuantity(symbol) ==
    IF symbol \in DOMAIN positions THEN positions[symbol].quantity ELSE 0

\* the change of the portfolio's holding of symbol over this step
HoldingChange(symbol) ==
    get_holding(holdings', symbol).quantity - get_holding(holdings, symbol).quantity

\* C39: with portfolio and tracker both empty at the start and every fill
\* going through _apply_fill, the tracker's position quantity of every symbol
\* equals the portfolio's holding of it after every order update, and a
\* callback appends a trade exactly when the portfolio's holding changed, the
\* trade being of the quantity the holding changed by.
C39_TrackerMirrorsPortfolio ==
    /\ [](\A s \in MirrorSymbols :
             TrackedQuantity(s) = get_holding(holdings, s).quantity)
    /\ [][EventStep =>
             /\ (trades' # trades) <=> (\E s \in MirrorSymbols : HoldingChange(s) # 0)
             /\ (trades' # trades) <=> (last'.apply = "ok")
             /\ trades' # trades =>
                    /\ Len(trades') = Len(trades) + 1
                    /\ SubSeq(trades', 1, Len(trades)) = trades
                    /\ trades'[Len(trades')].quantity
                           = HoldingChange(trades'[Len(trades')].symbol)]_vars

\* a position was opened and closed again, leaving tracker and portfolio
\* empty with two trades on record, and the sell that followed was refused by
\* the portfolio and left out of the tracker
C39_Witness ==
    /\ Len(trades) = 2
    /\ trades[1].quantity + trades[2].quantity = 0
    /\ trades[1].symbol = trades[2].symbol
    /\ last.apply \in {"ValueError", "OrderError"}
    /\ \A s \in MirrorSymbols :
          s \notin DOMAIN positions /\ get_holding(holdings, s).quantity = 0

====
